---- MODULE Spec2Model ----
(***************************************************************************)
(* A model of ccsync's synchronisation engine:                             *)
(*   - SyncStateManager (src/src/state/sync-state.ts): the lock file, the  *)
(*     stale-lock reclamation and the temp-file + rename state store;      *)
(*   - groupMessagesByUserInteraction (src/src/parsers/claude.ts);         *)
(*   - analyzeGroupChanges, syncSession and syncProject (src/src/sync.ts); *)
(*   - SessionWatcher (src/src/watch.ts).                                  *)
(* Each part has a specification of its own over the shared variables:     *)
(*   Spec        processes calling withLock on one state directory         *)
(*   SpecSolo    one withLock caller, with fairness                        *)
(*   SpecGroup   the grouping loop over bounded message sequences          *)
(*   SpecDiff    analyzeGroupChanges over bounded inputs                   *)
(*   SpecSync    syncSession runs of one session, log appends, failures    *)
(*   SpecRace    two processes calling syncSession on one session          *)
(*   SpecBackoff one withLock call with the clock: the backoff waits       *)
(*   SpecWatch   one SessionWatcher: debounce timers and sync runs         *)
(*   SpecProject one syncProject call over a list of sessions              *)
(***************************************************************************)
EXTENDS Integers, Sequences, FiniteSets, TLC

(***************************************************************************)
(* Program constants                                                       *)
(***************************************************************************)
lockTimeout == 30000
maxRetries == 10

(***************************************************************************)
(* Bounds of the model                                                     *)
(***************************************************************************)
\* processes sharing the state directory (each makes one withLock call)
NumProcs == 2
Procs == 1 .. NumProcs

VARIABLES
  \* ---- the state directory (shared between processes) ----
  lockFile,   \* sessions.lock: [exists, owner, age], age = Date.now() - mtime
  stateFile,  \* sessions.json: [exists, ino, writer, complete, recs]
  tempFile,   \* sessions.json.tmp: same shape
  \* ---- one withLock call per process ----
  pc,         \* where the call is
  attempts,   \* withLock's local `attempts`
  loaded,     \* what loadState returned to the operation
  fdIno,      \* the inode writeFileSync(tempFile) has open
  opErr,      \* the error the operation raised, "none" if none
  raised,     \* the error withLock raised to its caller, "none" if none
  opRuns,     \* how many times the operation was started
  staleAtCall, \* the lock file was older than lockTimeout when withLock
              \* began (kept while the call is acquiring the lock)
  openFailures, \* how many times openSync failed with EEXIST
  answer      \* what needsSync returned: "needsSync", "unchanged", or "none"

lockVars == <<lockFile, stateFile, tempFile, pc, attempts, loaded, fdIno,
              opErr, raised, opRuns, staleAtCall, openFailures, answer>>

VARIABLES
  \* ---- one call of groupMessagesByUserInteraction ----
  gIn,        \* its argument: the messages of a session file
  gOut,       \* its result: the groups
  gPc,        \* "input" before the call, "done" after
  \* ---- one call of analyzeGroupChanges ----
  dG,         \* currentGroups
  dS,         \* syncedGroups
  dOut,       \* the GroupAction list returned
  dPc         \* "input" before the call, "done" after

VARIABLES
  \* ---- one session, its state record, the Opik server ----
  log,        \* the messages of the session file, append only
  mtime,      \* the session file's modification time
  stored,     \* sessions[sessionId] of sessions.json
  remote,     \* the traces the server holds: [id, anchor, count]
  nextId,     \* how many trace ids have been handed to the server
  \* ---- one syncSession call per syncer ----
  sPc,        \* where the call is
  sForce,     \* options.force
  sDry,       \* options.dryRun
  sLen,       \* messages.length as parsed
  sGroups,    \* currentGroups
  sExisting,  \* existingSyncedGroups
  sActions,   \* groupActions
  sUpdated,   \* updatedSyncedGroups
  sNext,      \* the update action the loop is at
  sResult,    \* what the call returned or threw
  \* ---- bookkeeping for the claims ----
  runs,       \* syncSession calls started
  touches,    \* times the file was rewritten without a new message
  created,    \* per anchor uuid: createTraces calls that succeeded with it
  forcedEver, \* some call ran with options.force
  persistedLen, \* messages.length of the call that last saved the state
  sCalls,     \* createTraces/updateTrace calls made by the current call
  sClean,     \* the state was saved for exactly the messages this call read
  fileExists, \* the session file is there (findSessionFile finds it)
  sAcked,     \* createTraces/updateTrace calls of the call that succeeded
  sTags,      \* updateThreadTags calls made by the current call
  sTagFailed, \* some updateThreadTags call of the current call failed
  sLocks,     \* state-manager calls (withLock) made by the current call
  sPersist,   \* the call's updateSyncedGroups: "none", "saved" or "failed"
  sStateErr,  \* the error the state check of the call caught, or "none"
  sSent       \* the createTraces/updateTrace requests of the current call

VARIABLES
  \* ---- one withLock call with the clock, the lock file held by another ----
  bLock,      \* sessions.lock: [exists, owner, age], age in ms
  bPc,        \* where the call is
  bAttempts,  \* withLock's local `attempts`
  bDelay,     \* withLock's local `delay` of the last catch block
  bRaised,    \* the error withLock raised, "none" if none
  \* ---- bookkeeping for the claims ----
  bWaited,    \* the sum of the delays the call has slept, in ms
  bAgeAtCall, \* the age of the lock file when withLock was called, -1 if
              \* there was none
  bReclaimed  \* cleanStaleLocks of this call removed the lock file

VARIABLES
  \* ---- one syncProject call ----
  pSessions,  \* what listSessions returned: the session ids, in list order
  pNext,      \* the position of the for loop in sessions
  pSynced,    \* syncedCount
  pSkipped,   \* skippedCount
  pPc,        \* "loop", "done" or "failed"
  pRaised,    \* the error syncProject raised to its caller, "none" if none
  \* ---- bookkeeping for the claims ----
  pCalled,    \* the session ids syncSession was called with, in call order
  pOutcomes   \* how each of those calls ended
VARIABLES
  \* ---- one SessionWatcher ----
  wIsRunning, \* state.isRunning
  wHas,       \* per session id: state.debounceTimers.has(sessionId)
  wTimers,    \* per session id: the pending setTimeout timers of its syncs,
              \* oldest first, each the ticks left until it fires
  wSyncing,   \* per session id: syncSession calls that have not returned
  \* ---- bookkeeping for the claims ----
  wEvents,    \* handleFileChange calls so far
  wAge,       \* per session id: ticks since its last handleFileChange call,
              \* -1 if there was none
  wBurst,     \* per session id: the calls of its current burst
  wSince      \* per session id: syncSession calls started since the last
              \* handleFileChange call

groupVars == <<gIn, gOut, gPc>>

diffVars == <<dG, dS, dOut, dPc>>

syncVars ==
  <<log, mtime, stored, remote, nextId, sPc, sForce, sDry, sLen, sGroups,
    sExisting, sActions, sUpdated, sNext, sResult, runs, touches, created,
    forcedEver, persistedLen, sCalls, sClean, fileExists, sAcked, sTags,
    sTagFailed, sLocks, sPersist, sStateErr, sSent>>

backoffVars ==
  <<bLock, bPc, bAttempts, bDelay, bRaised, bWaited, bAgeAtCall, bReclaimed>>

\* the variables of the parts added to the four above
projectVars == <<pSessions, pNext, pSynced, pSkipped, pPc, pRaised, pCalled,
                 pOutcomes>>

watchVars ==
  <<wIsRunning, wHas, wTimers, wSyncing, wEvents, wAge, wBurst, wSince>>

extraVars == <<backoffVars, watchVars, projectVars>>

vars == <<lockVars, groupVars, diffVars, syncVars, extraVars>>

nonLockVars == <<groupVars, diffVars, syncVars, extraVars>>

nonGroupVars == <<lockVars, diffVars, syncVars, extraVars>>

nonDiffVars == <<lockVars, groupVars, syncVars, extraVars>>

nonSyncVars == <<lockVars, groupVars, diffVars, extraVars>>

coreVars == <<lockVars, groupVars, diffVars, syncVars>>

nonBackoffVars == <<coreVars, watchVars, projectVars>>

nonWatchVars == <<coreVars, backoffVars, projectVars>>

nonProjectVars == <<coreVars, backoffVars, watchVars>>

(***************************************************************************)
(* Files                                                                   *)
(***************************************************************************)
NoLock == [exists |-> FALSE, owner |-> 0, age |-> 0]

\* ino: the process that created the inode (0: before the model starts);
\* writer: whose JSON.stringify output the bytes are; complete: all of it is
\* there; recs: the session records of that content (process p persists the
\* record of session p).
NoFile == [exists |-> FALSE, ino |-> 0, writer |-> 0, complete |-> FALSE,
           recs |-> {}]

CommittedFile == [exists |-> TRUE, ino |-> 0, writer |-> 0, complete |-> TRUE,
                  recs |-> {}]

\* an abandoned lock file: its creator (process 0) terminated inside its
\* critical section before the model starts
AbandonedLock == [exists |-> TRUE, owner |-> 0, age |-> 0]

NotLoaded ==
  [done |-> FALSE, recs |-> {}, partial |-> FALSE, missing |-> FALSE,
   threw |-> FALSE]

\* error codes an operation can raise: statSync on a removed session file,
\* writeFileSync on a full disk
OpErrors == {"ENOENT", "ENOSPC"}

\* what loadState returns: recs are the sessions of the structure; missing
\* and partial tell what it found; threw would be an error leaving loadState
Fresh(missing, partial) ==
  [done |-> TRUE, recs |-> {}, partial |-> partial, missing |-> missing,
   threw |-> FALSE]

\* a plausible slip: the catch of loadState raises again
loadStateRethrows ==
  IF ~stateFile.exists
  THEN Fresh(TRUE, FALSE)
  ELSE IF ~stateFile.complete
       THEN [Fresh(FALSE, TRUE) EXCEPT !.threw = TRUE]
       ELSE [Fresh(FALSE, FALSE) EXCEPT !.recs = stateFile.recs]

\* loadState: a missing file or one JSON.parse rejects gives a fresh structure
loadState ==
  IF ~stateFile.exists
  THEN Fresh(TRUE, FALSE)
  ELSE IF ~stateFile.complete
       THEN Fresh(FALSE, TRUE)
       ELSE [Fresh(FALSE, FALSE) EXCEPT !.recs = stateFile.recs]

\* the body of needsSync on the loaded structure: no record of the session,
\* or a stored fingerprint that is not the current one (same = FALSE)
needsSync(state, sessionId, same) == sessionId \notin state.recs \/ ~same

\* no withLock call is modelled
LockOff ==
  /\ lockFile = NoLock
  /\ stateFile = NoFile
  /\ tempFile = NoFile
  /\ pc = [p \in Procs |-> "off"]
  /\ attempts = [p \in Procs |-> 0]
  /\ loaded = [p \in Procs |-> NotLoaded]
  /\ fdIno = [p \in Procs |-> 0]
  /\ opErr = [p \in Procs |-> "none"]
  /\ raised = [p \in Procs |-> "none"]
  /\ opRuns = [p \in Procs |-> 0]
  /\ staleAtCall = [p \in Procs |-> FALSE]
  /\ answer = [p \in Procs |-> "none"]
  /\ openFailures = [p \in Procs |-> 0]

InitLock ==
  /\ lockFile \in {NoLock, AbandonedLock}
  /\ stateFile \in {NoFile, CommittedFile}
  /\ tempFile = NoFile
  /\ pc = [p \in Procs |-> "idle"]
  /\ attempts = [p \in Procs |-> 0]
  /\ loaded = [p \in Procs |-> NotLoaded]
  /\ fdIno = [p \in Procs |-> 0]
  /\ opErr = [p \in Procs |-> "none"]
  /\ raised = [p \in Procs |-> "none"]
  /\ opRuns = [p \in Procs |-> 0]
  /\ staleAtCall = [p \in Procs |-> FALSE]
  /\ answer = [p \in Procs |-> "none"]
  /\ openFailures = [p \in Procs |-> 0]

(***************************************************************************)
(* withLock                                                                *)
(***************************************************************************)
\* the catch block of withLock: EEXIST counts a failed attempt and backs off,
\* any other error is raised to the caller
CatchBlockRetryAll(p, code) ==
  /\ attempts' = [attempts EXCEPT ![p] = @ + 1]
  /\ pc' = [pc EXCEPT ![p] = "sleep"]
  /\ raised' = raised

CatchBlock(p, code) ==
  IF code = "EEXIST"
  THEN /\ attempts' = [attempts EXCEPT ![p] = @ + 1]
       /\ pc' = [pc EXCEPT ![p] = "sleep"]
       /\ raised' = raised
  ELSE /\ attempts' = attempts
       /\ pc' = [pc EXCEPT ![p] = "failed"]
       /\ raised' = [raised EXCEPT ![p] = code]

\* a caller starts withLock(operation); attempts = 0 < maxRetries
\* (staleAtCall records what the lock file is like at this moment)
Call(p) ==
  /\ pc[p] = "idle"
  /\ pc' = [pc EXCEPT ![p] = "clean"]
  /\ staleAtCall' = [staleAtCall EXCEPT
                       ![p] = lockFile.exists /\ lockFile.age > lockTimeout]
  /\ UNCHANGED answer
  /\ UNCHANGED <<lockFile, stateFile, tempFile, attempts, loaded, fdIno,
                 opErr, raised, opRuns, openFailures>>
  /\ UNCHANGED nonLockVars

\* cleanStaleLocks: existsSync(lockFile)
CleanExists(p) ==
  /\ pc[p] = "clean"
  /\ pc' = [pc EXCEPT ![p] = IF lockFile.exists THEN "stat" ELSE "open"]
  /\ UNCHANGED <<lockFile, stateFile, tempFile, attempts, loaded, fdIno,
                 opErr, raised, opRuns, openFailures>>
  /\ UNCHANGED <<staleAtCall, answer>>
  /\ UNCHANGED nonLockVars

\* a plausible slip: the age is compared in seconds
IsStaleInSeconds(lockAge) == lockAge \div 1000 > lockTimeout

\* the age test of cleanStaleLocks: lockAge > this.lockTimeout
IsStale(lockAge) == lockAge > lockTimeout

\* cleanStaleLocks: statSync(lockFile) and the age test; statSync on a file
\* removed meanwhile throws into cleanStaleLocks' own catch
CleanStat(p) ==
  /\ pc[p] = "stat"
  /\ pc' = [pc EXCEPT ![p] =
              IF ~lockFile.exists THEN "unlinkCatch"
              ELSE IF IsStale(lockFile.age) THEN "unlink" ELSE "open"]
  /\ UNCHANGED <<lockFile, stateFile, tempFile, attempts, loaded, fdIno,
                 opErr, raised, opRuns, openFailures>>
  /\ UNCHANGED <<staleAtCall, answer>>
  /\ UNCHANGED nonLockVars

\* cleanStaleLocks: unlinkSync(lockFile) of the lock judged stale
CleanUnlink(p) ==
  /\ pc[p] = "unlink"
  /\ IF lockFile.exists
     THEN /\ lockFile' = NoLock
          /\ pc' = [pc EXCEPT ![p] = "open"]
     ELSE /\ lockFile' = lockFile
          /\ pc' = [pc EXCEPT ![p] = "unlinkCatch"]
  /\ UNCHANGED <<stateFile, tempFile, attempts, loaded, fdIno, opErr, raised,
                 opRuns, openFailures>>
  /\ UNCHANGED <<staleAtCall, answer>>
  /\ UNCHANGED nonLockVars

\* cleanStaleLocks' catch: unlinkSync(lockFile), errors ignored
CleanUnlinkCatch(p) ==
  /\ pc[p] = "unlinkCatch"
  /\ lockFile' = NoLock
  /\ pc' = [pc EXCEPT ![p] = "open"]
  /\ UNCHANGED <<stateFile, tempFile, attempts, loaded, fdIno, opErr, raised,
                 opRuns, openFailures>>
  /\ UNCHANGED <<staleAtCall, answer>>
  /\ UNCHANGED nonLockVars

\* openSync(lockFile, O_CREAT | O_EXCL | O_WRONLY), then writeFileSync of
\* "<pid>:<Date.now()>" into it: the new file's age is 0
OpenLock(p) ==
  /\ pc[p] = "open"
  /\ IF lockFile.exists
     THEN /\ CatchBlock(p, "EEXIST")
          /\ openFailures' = [openFailures EXCEPT ![p] = @ + 1]
          /\ lockFile' = lockFile
     ELSE /\ lockFile' = [exists |-> TRUE, owner |-> p, age |-> 0]
          /\ pc' = [pc EXCEPT ![p] = "op"]
          /\ UNCHANGED <<attempts, raised, openFailures>>
  /\ UNCHANGED <<stateFile, tempFile, loaded, fdIno, opErr, opRuns>>
  /\ UNCHANGED <<staleAtCall, answer>>
  /\ UNCHANGED nonLockVars

\* a plausible slip: the loop test lets an eleventh attempt through
WakeOneMore(p) ==
  /\ pc[p] = "sleep"
  /\ IF attempts[p] <= maxRetries
     THEN /\ pc' = [pc EXCEPT ![p] = "clean"]
          /\ raised' = raised
     ELSE /\ pc' = [pc EXCEPT ![p] = "failed"]
          /\ raised' = [raised EXCEPT ![p] = "LockTimeout"]
  /\ UNCHANGED <<lockFile, stateFile, tempFile, attempts, loaded, fdIno,
                 opErr, opRuns, openFailures>>
  /\ UNCHANGED <<staleAtCall, answer>>
  /\ UNCHANGED nonLockVars

\* the backoff timer fires; the while condition is tested again
Wake(p) ==
  /\ pc[p] = "sleep"
  /\ IF attempts[p] < maxRetries
     THEN /\ pc' = [pc EXCEPT ![p] = "clean"]
          /\ raised' = raised
     ELSE /\ pc' = [pc EXCEPT ![p] = "failed"]
          /\ raised' = [raised EXCEPT ![p] = "LockTimeout"]
  /\ UNCHANGED <<lockFile, stateFile, tempFile, attempts, loaded, fdIno,
                 opErr, opRuns, openFailures>>
  /\ UNCHANGED <<staleAtCall, answer>>
  /\ UNCHANGED nonLockVars

\* the operation starts: loadState; an error it raised would be the
\* operation's error
OpLoad(p) ==
  /\ pc[p] = "op"
  /\ loaded' = [loaded EXCEPT ![p] = loadState]
  /\ opRuns' = [opRuns EXCEPT ![p] = @ + 1]
  /\ IF loadState.threw
     THEN /\ opErr' = [opErr EXCEPT ![p] = "SyntaxError"]
          /\ CatchBlock(p, "SyntaxError")
     ELSE /\ pc' = [pc EXCEPT ![p] = "compute"]
          /\ UNCHANGED <<attempts, raised, opErr>>
  /\ staleAtCall' = [staleAtCall EXCEPT ![p] = FALSE]
  /\ UNCHANGED <<lockFile, stateFile, tempFile, fdIno, openFailures, answer>>
  /\ UNCHANGED nonLockVars

\* the operation goes on: createSessionFingerprint, which can throw; then a
\* reading operation (needsSync, getSyncState) returns and a writing one
\* (updateSyncedGroups, markSynced, removeSession) goes to saveState
OpCompute(p) ==
  /\ pc[p] = "compute"
  /\ \/ /\ pc' = [pc EXCEPT ![p] = "release"]
        /\ \E same \in BOOLEAN :
             answer' = [answer EXCEPT
                          ![p] = IF needsSync(loaded[p], p, same)
                                 THEN "needsSync" ELSE "unchanged"]
        /\ UNCHANGED <<attempts, raised, opErr>>
     \/ /\ pc' = [pc EXCEPT ![p] = "saveOpen"]
        /\ UNCHANGED <<attempts, raised, opErr, answer>>
     \/ \E e \in OpErrors :
          /\ opErr' = [opErr EXCEPT ![p] = e]
          /\ CatchBlock(p, e)
          /\ UNCHANGED answer
  /\ UNCHANGED <<lockFile, stateFile, tempFile, loaded, fdIno, opRuns, openFailures>>
  /\ UNCHANGED staleAtCall
  /\ UNCHANGED nonLockVars

\* saveState: writeFileSync(tempFile) opens sessions.json.tmp with O_TRUNC;
\* an existing file keeps its inode and loses its bytes
SaveOpenTemp(p) ==
  /\ pc[p] = "saveOpen"
  /\ tempFile' = [exists |-> TRUE,
                  ino |-> IF tempFile.exists THEN tempFile.ino ELSE p,
                  writer |-> p, complete |-> FALSE, recs |-> {}]
  /\ fdIno' = [fdIno EXCEPT ![p] = tempFile'.ino]
  /\ pc' = [pc EXCEPT ![p] = "saveWrite"]
  /\ UNCHANGED <<lockFile, stateFile, attempts, loaded, opErr, raised,
                 opRuns, openFailures>>
  /\ UNCHANGED <<staleAtCall, answer>>
  /\ UNCHANGED nonLockVars

\* the bytes p's write leaves in the inode it has open: all of p's content,
\* unless another writer's complete content was there and is longer
Written(p, f) ==
  {[f EXCEPT !.writer = p, !.complete = c, !.recs = loaded[p].recs \cup {p}] :
     c \in IF f.complete /\ f.writer # p THEN BOOLEAN ELSE {TRUE}}

\* saveState: writeFileSync(tempFile) writes the content through its
\* descriptor, wherever that inode is by now, and closes it
SaveWriteTemp(p) ==
  /\ pc[p] = "saveWrite"
  /\ IF tempFile.exists /\ tempFile.ino = fdIno[p]
     THEN /\ tempFile' \in Written(p, tempFile)
          /\ stateFile' = stateFile
     ELSE IF stateFile.exists /\ stateFile.ino = fdIno[p]
          THEN /\ stateFile' \in Written(p, stateFile)
               /\ tempFile' = tempFile
          ELSE UNCHANGED <<stateFile, tempFile>>
  /\ fdIno' = [fdIno EXCEPT ![p] = 0]
  /\ pc' = [pc EXCEPT ![p] = "rename"]
  /\ UNCHANGED <<lockFile, attempts, loaded, opErr, raised, opRuns, openFailures>>
  /\ UNCHANGED <<staleAtCall, answer>>
  /\ UNCHANGED nonLockVars

\* saveState: renameSync(tempFile, stateFile); ENOENT when the temp file is
\* gone, which the operation raises
SaveRename(p) ==
  /\ pc[p] = "rename"
  /\ IF tempFile.exists
     THEN /\ stateFile' = tempFile
          /\ tempFile' = NoFile
          /\ pc' = [pc EXCEPT ![p] = "release"]
          /\ UNCHANGED <<attempts, raised, opErr>>
     ELSE /\ opErr' = [opErr EXCEPT ![p] = "ENOENT"]
          /\ CatchBlock(p, "ENOENT")
          /\ UNCHANGED <<stateFile, tempFile>>
  /\ UNCHANGED <<lockFile, loaded, fdIno, opRuns, openFailures>>
  /\ UNCHANGED <<staleAtCall, answer>>
  /\ UNCHANGED nonLockVars

\* the operation returned: closeSync(lockFd), unlinkSync(lockFile), return;
\* unlinkSync of a lock file that is gone throws ENOENT into the catch block
Release(p) ==
  /\ pc[p] = "release"
  /\ IF lockFile.exists
     THEN /\ lockFile' = NoLock
          /\ pc' = [pc EXCEPT ![p] = "done"]
          /\ UNCHANGED <<attempts, raised>>
     ELSE /\ lockFile' = lockFile
          /\ CatchBlock(p, "ENOENT")
  /\ UNCHANGED <<stateFile, tempFile, loaded, fdIno, opErr, opRuns, openFailures>>
  /\ UNCHANGED <<staleAtCall, answer>>
  /\ UNCHANGED nonLockVars

\* the operation is executing: withLock's critical section
InCS(p) == pc[p] \in {"op", "compute", "saveOpen", "saveWrite", "rename"}

\* the process is terminated abruptly while it holds the lock file it created
\* (a process killed anywhere else leaves nothing behind, and is the same as
\* one that takes no further step)
Crash(p) ==
  /\ InCS(p) \/ pc[p] = "release"
  /\ pc' = [pc EXCEPT ![p] = "crashed"]
  /\ UNCHANGED <<lockFile, stateFile, tempFile, attempts, loaded, fdIno,
                 opErr, raised, opRuns, openFailures>>
  /\ UNCHANGED <<staleAtCall, answer>>
  /\ UNCHANGED nonLockVars

\* time passes: lockTimeout ms more on the lock file's age (once a lock is
\* stale, more time changes nothing)
Tick ==
  /\ lockFile.exists
  /\ ~IsStale(lockFile.age)
  /\ lockFile' = [lockFile EXCEPT !.age = @ + lockTimeout]
  /\ UNCHANGED <<stateFile, tempFile, pc, attempts, loaded, fdIno, opErr,
                 raised, opRuns, openFailures>>
  /\ UNCHANGED <<staleAtCall, answer>>
  /\ UNCHANGED nonLockVars

NextLock ==
  \/ Tick
  \/ \E p \in Procs :
       \/ Call(p)
       \/ CleanExists(p)
       \/ CleanStat(p)
       \/ CleanUnlink(p)
       \/ CleanUnlinkCatch(p)
       \/ OpenLock(p)
       \/ Wake(p)
       \/ OpLoad(p)
       \/ OpCompute(p)
       \/ SaveOpenTemp(p)
       \/ SaveWriteTemp(p)
       \/ SaveRename(p)
       \/ Release(p)
       \/ Crash(p)

\* a state file that JSON.parse rejects (cut short, or not JSON at all)
CorruptFile == [exists |-> TRUE, ino |-> 0, writer |-> 0, complete |-> FALSE,
                recs |-> {}]

\* a state file that holds the records of the callers' sessions
SyncedFile == [exists |-> TRUE, ino |-> 0, writer |-> 0, complete |-> TRUE,
               recs |-> Procs]

\* the state directory a lone caller can find
InitSolo ==
  /\ lockFile \in {NoLock, AbandonedLock}
  /\ stateFile \in {NoFile, CommittedFile, CorruptFile, SyncedFile}
  /\ tempFile = NoFile
  /\ pc = [p \in Procs |-> "idle"]
  /\ attempts = [p \in Procs |-> 0]
  /\ loaded = [p \in Procs |-> NotLoaded]
  /\ fdIno = [p \in Procs |-> 0]
  /\ opErr = [p \in Procs |-> "none"]
  /\ raised = [p \in Procs |-> "none"]
  /\ opRuns = [p \in Procs |-> 0]
  /\ staleAtCall = [p \in Procs |-> FALSE]
  /\ answer = [p \in Procs |-> "none"]
  /\ openFailures = [p \in Procs |-> 0]

\* withLock called with nobody else using the state directory: the steps of
\* one caller, which go on until the call returns or raises
SoloProcs == {1}

SoloSteps(p) ==
  \/ Call(p)
  \/ CleanExists(p)
  \/ CleanStat(p)
  \/ CleanUnlink(p)
  \/ OpenLock(p)
  \/ Wake(p)
  \/ OpLoad(p)
  \/ OpCompute(p)
  \/ SaveOpenTemp(p)
  \/ SaveWriteTemp(p)
  \/ SaveRename(p)
  \/ Release(p)

NextSolo ==
  \/ Tick
  \/ \E p \in SoloProcs : SoloSteps(p) \/ Crash(p)

\* the event loop runs the caller's next step: synchronous code runs on, the
\* backoff timer fires, the awaited operation settles
SoloFairness == WF_vars(\E p \in SoloProcs : SoloSteps(p))

(***************************************************************************)
(* Claims about withLock and the state store                               *)
(***************************************************************************)
\* C1: at no time are two processes both executing their operation inside
\* withLock's critical section.
C1_MutualExclusion ==
  \A p, q \in Procs : p # q => ~(InCS(p) /\ InCS(q))

\* C8: the state file never holds a partly written content, and no loadState
\* reads one: a reader sees the complete old or the complete new content.
C8_AtomicPersistence ==
  /\ stateFile.exists => stateFile.complete
  /\ \A p \in Procs : ~loaded[p].partial

\* C9: when withLock has run its operation and has returned or raised, the
\* lock file that call created is gone.
C9_GuaranteedRelease ==
  \A p \in Procs :
    (pc[p] \in {"done", "failed"} /\ opRuns[p] > 0)
      => ~(lockFile.exists /\ lockFile.owner = p)

\* C10: an error raised by the operation is the error withLock raises; it is
\* not counted as a failed acquisition attempt (attempts counts the EEXIST
\* failures of openSync only), and the operation is never run a second time.
C10_ErrorPropagation ==
  \A p \in Procs :
    /\ attempts[p] = openFailures[p]
    /\ opRuns[p] <= 1
    /\ (opErr[p] # "none" /\ pc[p] \notin {"crashed"})
         => (pc[p] = "failed" /\ raised[p] = opErr[p])

\* C10's case: after failed attempts, the operation ran and raised ENOSPC,
\* and withLock has raised
C10_Witness ==
  \E p \in Procs :
    /\ pc[p] = "failed"
    /\ opErr[p] = "ENOSPC"
    /\ attempts[p] > 0
    /\ opRuns[p] = 1

\* C11: a caller that finds the lock file older than lockTimeout when it
\* calls withLock, with no other process contending, deletes it and acquires
\* the lock on its first attempt: no attempt fails, no retry is consumed.
C11_StaleReclaim ==
  \A p \in SoloProcs :
    staleAtCall[p] =>
      /\ attempts[p] = 0
      /\ openFailures[p] = 0
      /\ pc[p] \in {"clean", "stat", "unlink", "open", "op", "crashed"}
      /\ pc[p] = "open" => ~lockFile.exists
      /\ pc[p] = "op" => (lockFile.exists /\ lockFile.owner = p)

\* C11's case: the abandoned lock was stale at the call and the caller now
\* holds a lock file of its own, with no failed attempt
C11_Witness ==
  \E p \in SoloProcs :
    /\ staleAtCall[p]
    /\ pc[p] = "op"
    /\ lockFile.owner = p
    /\ attempts[p] = 0

Terminated(p) == pc[p] \in {"done", "failed", "crashed"}

\* what holds of a call at any time: at most maxRetries failed attempts; after
\* the last one the call only waits and fails with the lock-timeout error,
\* its operation not run and the other holder's lock file still there
TimeoutSafety(p) ==
  /\ attempts[p] <= maxRetries
  /\ attempts[p] = maxRetries =>
       /\ pc[p] \in {"sleep", "failed"}
       /\ opRuns[p] = 0
       /\ lockFile.exists /\ lockFile.owner # p
       /\ pc[p] = "failed" => raised[p] = "LockTimeout"
  /\ raised[p] = "LockTimeout" =>
       (attempts[p] = maxRetries /\ openFailures[p] = maxRetries)

\* C12: withLock terminates, and a call whose maxRetries attempts all found
\* the lock file there and young fails with the lock-timeout error after the
\* last of them, without running its operation or deleting the lock file.
C12_LockTimeout ==
  /\ [](\A p \in SoloProcs : TimeoutSafety(p))
  /\ \A p \in SoloProcs : (pc[p] = "clean") ~> Terminated(p)
  /\ \A p \in SoloProcs :
       (attempts[p] = maxRetries)
         ~> (pc[p] = "failed" /\ raised[p] = "LockTimeout")

\* C12's case: ten attempts failed on a lock file that is still young, and
\* the call has raised the lock-timeout error
C12_Witness ==
  \E p \in SoloProcs :
    /\ pc[p] = "failed"
    /\ raised[p] = "LockTimeout"
    /\ openFailures[p] = maxRetries
    /\ lockFile.exists /\ ~IsStale(lockFile.age)
    /\ opRuns[p] = 0

\* C13: loadState raises nothing; on a missing state file or one whose
\* content cannot be parsed it returns a structure with no session, so that
\* needsSync answers that the session needs syncing.
C13_LoadNeverFails ==
  \A p \in SoloProcs :
    /\ opErr[p] # "SyntaxError"
    /\ loaded[p].done =>
         /\ ~loaded[p].threw
         /\ (loaded[p].missing \/ loaded[p].partial) =>
              /\ loaded[p].recs = {}
              /\ answer[p] \in {"none", "needsSync"}

\* C13's case: the state file could not be parsed, needsSync has answered
\* that the session needs syncing and withLock has returned
C13_Witness ==
  \E p \in SoloProcs :
    /\ pc[p] = "done"
    /\ loaded[p].partial
    /\ answer[p] = "needsSync"
    /\ opErr[p] = "none"

\* the withLock call of p has ended and its operation, a writing one
\* (updateSyncedGroups), ran to its end: saveState renamed p's content
Persisted(p) ==
  /\ pc[p] \in {"done", "failed"}
  /\ opRuns[p] = 1
  /\ opErr[p] = "none"
  /\ answer[p] = "none"

\* C37: when two processes have each persisted the record of their own
\* session, whatever the interleaving, the state file holds both records
\* (and is a complete content).
C37_NoLostUpdate ==
  \A p, q \in Procs :
    (p # q /\ Persisted(p) /\ Persisted(q)) =>
      /\ stateFile.exists
      /\ stateFile.complete
      /\ {p, q} \subseteq stateFile.recs

(***************************************************************************)
(* Messages and groupMessagesByUserInteraction                             *)
(***************************************************************************)
\* the longest message sequence grouped
MaxLen == 4

\* what the grouping reads of a message: its type, and whether
\* message.content is a string (text) or an array (tool calls, tool results)
UserText == [type |-> "user", text |-> TRUE]
ToolResult == [type |-> "user", text |-> FALSE]
AssistantText == [type |-> "assistant", text |-> TRUE]
AssistantBlocks == [type |-> "assistant", text |-> FALSE]
Summary == [type |-> "summary", text |-> FALSE]

MsgKinds == {UserText, ToolResult, AssistantText, AssistantBlocks, Summary}

\* the i-th line of a session file; its uuid is unique in the file
Msg(i, kind) == [uuid |-> i, type |-> kind.type, text |-> kind.text]

\* the session files of up to n lines whose lines are of the kinds in K
Logs(K, n) ==
  UNION {{[i \in 1 .. len |-> Msg(i, ks[i])] : ks \in [1 .. len -> K]} :
           len \in 0 .. n}

\* message.type === 'user' && typeof message.message.content === 'string'
StartsGroup(m) == m.type = "user" /\ m.text

\* a plausible slip: a group is kept only when it starts with a user text
\* message, so the messages before the first one are dropped
FlushIfAnchored(groups, currentGroup) ==
  IF Len(currentGroup) > 0 /\ StartsGroup(currentGroup[1])
  THEN Append(groups, currentGroup) ELSE groups

\* groups.push([...currentGroup]) if currentGroup.length > 0
Flush(groups, currentGroup) ==
  IF Len(currentGroup) > 0 THEN Append(groups, currentGroup) ELSE groups

\* plausible slips: summary lines are not skipped; every user message, tool
\* results included, starts a group
RECURSIVE GroupLoopKeepSummary(_, _, _, _)
GroupLoopKeepSummary(messages, i, groups, currentGroup) ==
  IF i > Len(messages)
  THEN Flush(groups, currentGroup)
  ELSE LET message == messages[i] IN
       IF StartsGroup(message)
       THEN GroupLoopKeepSummary(messages, i + 1, Flush(groups, currentGroup),
                                 <<message>>)
       ELSE GroupLoopKeepSummary(messages, i + 1, groups,
                                 Append(currentGroup, message))

RECURSIVE GroupLoopAnyUser(_, _, _, _)
GroupLoopAnyUser(messages, i, groups, currentGroup) ==
  IF i > Len(messages)
  THEN Flush(groups, currentGroup)
  ELSE LET message == messages[i] IN
       IF message.type = "summary"
       THEN GroupLoopAnyUser(messages, i + 1, groups, currentGroup)
       ELSE IF message.type = "user"
            THEN GroupLoopAnyUser(messages, i + 1,
                                  Flush(groups, currentGroup), <<message>>)
            ELSE GroupLoopAnyUser(messages, i + 1, groups,
                                  Append(currentGroup, message))

\* the for loop of groupMessagesByUserInteraction from message i on, and the
\* final push
RECURSIVE GroupLoop(_, _, _, _)
GroupLoop(messages, i, groups, currentGroup) ==
  IF i > Len(messages)
  THEN Flush(groups, currentGroup)
  ELSE LET message == messages[i] IN
       IF message.type = "summary"
       THEN GroupLoop(messages, i + 1, groups, currentGroup)
       ELSE IF StartsGroup(message)
            THEN GroupLoop(messages, i + 1, Flush(groups, currentGroup),
                           <<message>>)
            ELSE GroupLoop(messages, i + 1, groups,
                           Append(currentGroup, message))

groupMessagesByUserInteraction(messages) == GroupLoop(messages, 1, <<>>, <<>>)

\* no grouping call is modelled
GroupOff ==
  /\ gIn = <<>>
  /\ gOut = <<>>
  /\ gPc = "off"

InitGroup ==
  /\ gIn \in Logs(MsgKinds, MaxLen)
  /\ gOut = <<>>
  /\ gPc = "input"

\* the call
GroupCall ==
  /\ gPc = "input"
  /\ gOut' = groupMessagesByUserInteraction(gIn)
  /\ gPc' = "done"
  /\ UNCHANGED gIn
  /\ UNCHANGED nonGroupVars

NextGroup == GroupCall

(***************************************************************************)
(* Claims about groupMessagesByUserInteraction                             *)
(***************************************************************************)
\* the positions of gIn that hold a user message with plain-text content
QualifyingAt == {i \in 1 .. Len(gIn) : StartsGroup(gIn[i])}

\* a non-summary message comes before the first qualifying one (or there is
\* no qualifying one and there is a non-summary message)
HasLeading ==
  \E j \in 1 .. Len(gIn) :
    /\ gIn[j].type # "summary"
    /\ \A i \in QualifyingAt : j < i

\* C6: the number of groups is the number of user-text messages, plus one if
\* and only if a non-summary message precedes the first of them (or there is
\* none and the log has a non-summary message).
C6_GroupCount ==
  gPc = "done" =>
    Len(gOut) = Cardinality(QualifyingAt) + (IF HasLeading THEN 1 ELSE 0)

\* C6's case: summaries, a leading group and two user-text messages
C6_Witness ==
  /\ gPc = "done"
  /\ HasLeading
  /\ Cardinality(QualifyingAt) = 2
  /\ \E i \in 1 .. Len(gIn) : gIn[i].type = "summary"
  /\ Len(gOut) = 3

\* group k of the result is the leading group: the first one, when the first
\* non-summary message of the input is not a user-text message
IsLeadingGroup(k) == k = 1 /\ HasLeading

\* C7: a message is the first element of a group other than the leading group
\* if and only if it is a user message with string content; so no group holds
\* such a message at a later position, and a tool-result or assistant message
\* starts no group after the first user-text message.
C7_GroupBoundary ==
  gPc = "done" =>
    /\ \A k \in 1 .. Len(gOut) : \A j \in 1 .. Len(gOut[k]) :
         StartsGroup(gOut[k][j]) <=> (j = 1 /\ ~IsLeadingGroup(k))
    /\ \A k \in 1 .. Len(gOut) :
         ~StartsGroup(gOut[k][1]) =>
            \A i \in QualifyingAt : gOut[k][1].uuid < i

\* C7's case: a leading group, then a group holding a tool result and an
\* assistant message after its user-text message
C7_Witness ==
  /\ gPc = "done"
  /\ Len(gOut) = 2
  /\ IsLeadingGroup(1)
  /\ Len(gOut[2]) = 3
  /\ gOut[2][2].type = "user"
  /\ gOut[2][3].type = "assistant"

(***************************************************************************)
(* analyzeGroupChanges                                                     *)
(***************************************************************************)
\* the longest session file whose groups are diffed, and the longest stored
\* syncedGroups list
MaxDiffMsgs == 3
MaxSynced == 2

\* syncedGroups.find(sg => sg.userMessageUuid === uuid): the index of the
\* first match, 0 for undefined
FindSynced(syncedGroups, uuid) ==
  LET hits == {i \in 1 .. Len(syncedGroups) :
                 syncedGroups[i].userMessageUuid = uuid}
  IN IF hits = {} THEN 0 ELSE CHOOSE i \in hits : \A j \in hits : i <= j

CreateAction(group) == [action |-> "create", group |-> group, traceId |-> 0]

UpdateAction(group, traceId) ==
  [action |-> "update", group |-> group, traceId |-> traceId]

\* plausible slips: a synced group is updated whenever it is found; only the
\* message count is compared
ActionsOfAlwaysUpdate(group, syncedGroups) ==
  IF Len(group) = 0 THEN <<>>
  ELSE LET found == FindSynced(syncedGroups, group[1].uuid)
       IN IF found = 0
          THEN <<CreateAction(group)>>
          ELSE <<UpdateAction(group, syncedGroups[found].traceId)>>

ActionsOfCountOnly(group, syncedGroups) ==
  IF Len(group) = 0 THEN <<>>
  ELSE LET found == FindSynced(syncedGroups, group[1].uuid)
       IN IF found = 0
          THEN <<CreateAction(group)>>
          ELSE IF syncedGroups[found].messageCount # Len(group)
               THEN <<UpdateAction(group, syncedGroups[found].traceId)>>
               ELSE <<>>

\* the body of the for loop of analyzeGroupChanges: the actions one group adds
ActionsOf(group, syncedGroups) ==
  IF Len(group) = 0 THEN <<>>
  ELSE LET userMessage == group[1]
           lastMessage == group[Len(group)]
           found == FindSynced(syncedGroups, userMessage.uuid)
       IN IF found = 0
          THEN <<CreateAction(group)>>
          ELSE IF \/ syncedGroups[found].lastMessageUuid # lastMessage.uuid
                  \/ syncedGroups[found].messageCount # Len(group)
               THEN <<UpdateAction(group, syncedGroups[found].traceId)>>
               ELSE <<>>

\* a plausible slip: actions.unshift instead of actions.push
RECURSIVE AnalyzeLoopUnshift(_, _, _)
AnalyzeLoopUnshift(currentGroups, k, syncedGroups) ==
  IF k > Len(currentGroups) THEN <<>>
  ELSE AnalyzeLoopUnshift(currentGroups, k + 1, syncedGroups)
         \o ActionsOf(currentGroups[k], syncedGroups)

RECURSIVE AnalyzeLoop(_, _, _)
AnalyzeLoop(currentGroups, k, syncedGroups) ==
  IF k > Len(currentGroups) THEN <<>>
  ELSE ActionsOf(currentGroups[k], syncedGroups)
         \o AnalyzeLoop(currentGroups, k + 1, syncedGroups)

analyzeGroupChanges(currentGroups, syncedGroups) ==
  AnalyzeLoop(currentGroups, 1, syncedGroups)

\* the elements of a set of numbers in increasing order
RECURSIVE Ascending(_)
Ascending(set) ==
  IF set = {} THEN <<>>
  ELSE LET least == CHOOSE x \in set : \A y \in set : x <= y
       IN <<least>> \o Ascending(set \ {least})

\* the stored syncedGroups lists: at most MaxSynced entries, one per anchor,
\* in the order of their anchors in the log (the order syncSession appends
\* them in), any lastMessageUuid and messageCount, distinct trace ids
SyncedLists ==
  UNION {
    {[i \in 1 .. Len(Ascending(A)) |->
        [traceId |-> 100 + i,
         userMessageUuid |-> Ascending(A)[i],
         lastMessageUuid |-> last[Ascending(A)[i]],
         messageCount |-> count[Ascending(A)[i]]]] :
       last \in [A -> 1 .. MaxDiffMsgs], count \in [A -> 1 .. MaxDiffMsgs]} :
    A \in {B \in SUBSET (1 .. MaxDiffMsgs) : Cardinality(B) <= MaxSynced}}

\* no diff call is modelled
DiffOff ==
  /\ dG = <<>>
  /\ dS = <<>>
  /\ dOut = <<>>
  /\ dPc = "off"

\* currentGroups is the grouping of a session file, syncedGroups a stored list
InitDiff ==
  /\ \E messages \in Logs({UserText, AssistantBlocks}, MaxDiffMsgs) :
       dG = groupMessagesByUserInteraction(messages)
  /\ dS \in SyncedLists
  /\ dOut = <<>>
  /\ dPc = "input"

\* the call
DiffCall ==
  /\ dPc = "input"
  /\ dOut' = analyzeGroupChanges(dG, dS)
  /\ dPc' = "done"
  /\ UNCHANGED <<dG, dS>>
  /\ UNCHANGED nonDiffVars

NextDiff == DiffCall

(***************************************************************************)
(* Claims about analyzeGroupChanges                                        *)
(***************************************************************************)
AnchorOf(group) == group[1].uuid

LastOf(group) == group[Len(group)].uuid

StoredAnchors == {dS[i].userMessageUuid : i \in 1 .. Len(dS)}

\* the stored entries that record group g as it is now
SameAsStored(g) ==
  {i \in 1 .. Len(dS) : /\ dS[i].userMessageUuid = AnchorOf(g)
                        /\ dS[i].lastMessageUuid = LastOf(g)
                        /\ dS[i].messageCount = Len(g)}

ActionsFor(g) == {n \in 1 .. Len(dOut) : dOut[n].group = g}

\* C4: a current group whose first message id is no stored anchor yields a
\* Create action; one whose anchor is stored with the same lastMessageId and
\* messageCount yields no action.
C4_CreateAndNoAction ==
  dPc = "done" =>
    \A k \in 1 .. Len(dG) :
      /\ AnchorOf(dG[k]) \notin StoredAnchors =>
           \E n \in ActionsFor(dG[k]) : dOut[n].action = "create"
      /\ SameAsStored(dG[k]) # {} => ActionsFor(dG[k]) = {}

\* C4's case: one group is new, another is stored unchanged, a stored entry
\* has no current group
C4_Witness ==
  /\ dPc = "done"
  /\ \E k \in 1 .. Len(dG) : AnchorOf(dG[k]) \notin StoredAnchors
  /\ \E k \in 1 .. Len(dG) : SameAsStored(dG[k]) # {} /\ Len(dG[k]) > 1
  /\ \E a \in StoredAnchors : \A k \in 1 .. Len(dG) : AnchorOf(dG[k]) # a
  /\ Len(dOut) = 1

\* C5: a current group whose anchor is stored yields an Update action if and
\* only if its last message id or its length differs from the stored entry,
\* and the Update carries the trace id stored for that anchor.
C5_UpdateRule ==
  dPc = "done" =>
    \A k \in 1 .. Len(dG) : \A i \in 1 .. Len(dS) :
      dS[i].userMessageUuid = AnchorOf(dG[k]) =>
        /\ (\E n \in ActionsFor(dG[k]) : dOut[n].action = "update")
             <=> (\/ dS[i].lastMessageUuid # LastOf(dG[k])
                  \/ dS[i].messageCount # Len(dG[k]))
        /\ \A n \in ActionsFor(dG[k]) :
             dOut[n].action = "update" /\ dOut[n].traceId = dS[i].traceId

\* C5's case: the second stored entry matches a group in count but not in
\* last message id, and the Update carries its trace id
C5_Witness ==
  /\ dPc = "done"
  /\ \E k \in 1 .. Len(dG) :
       /\ Len(dS) = 2
       /\ dS[2].userMessageUuid = AnchorOf(dG[k])
       /\ dS[2].messageCount = Len(dG[k])
       /\ dS[2].lastMessageUuid # LastOf(dG[k])
       /\ \E n \in ActionsFor(dG[k]) : dOut[n] = UpdateAction(dG[k], 102)

(***************************************************************************)
(* syncSession                                                             *)
(***************************************************************************)
\* the longest session file, the number of syncSession calls, the number of
\* rewrites of the file that add no message
MaxLog == 3
MaxRuns == 2
MaxTouch == 1

\* the callers of syncSession; SoloSyncers is a single process calling it
\* again only after the previous call has returned
Syncers == {1, 2}
SoloSyncers == {1}

\* the kinds of line the synced session files are made of
SyncKinds == {UserText, AssistantBlocks}

NoSession == [present |-> FALSE, fingerprint |-> <<>>, syncedGroups |-> <<>>]

\* createSessionFingerprint: the checksum is a hash of messageCount,
\* lastMessageTime and fileModTime (the session id is fixed here); a message's
\* timestamp is its position.  An empty file has lastMessageTime = now.
Fingerprint(messages, fileModTime, now) ==
  <<Len(messages),
    IF Len(messages) > 0 THEN messages[Len(messages)].uuid ELSE now,
    fileModTime>>

\* claudeToOpikTraces(group).length > 0: the group's first message is a user
\* message with string content
Convertible(group) == group[1].type = "user" /\ group[1].text

\* the SyncedGroup syncSession records for a group
SyncedEntry(traceId, group) ==
  [traceId |-> traceId,
   userMessageUuid |-> group[1].uuid,
   lastMessageUuid |-> group[Len(group)].uuid,
   messageCount |-> Len(group)]

\* what the server keeps of a trace
Trace(id, group) == [id |-> id, anchor |-> group[1].uuid, count |-> Len(group)]

IsCreate(a) == a.action = "create"

IsUpdate(a) == a.action = "update"

\* createGroups: the create actions whose group converts to a trace
CreateGroups(actions) ==
  SelectSeq(actions, LAMBDA a : IsCreate(a) /\ Convertible(a.group))

UpdateActions(actions) == SelectSeq(actions, IsUpdate)

\* updatedSyncedGroups.findIndex(sg => sg.traceId === traceId), 0 for -1
FindIndex(syncedGroups, traceId) ==
  LET hits == {i \in 1 .. Len(syncedGroups) :
                 syncedGroups[i].traceId = traceId}
  IN IF hits = {} THEN 0 ELSE CHOOSE i \in hits : \A j \in hits : i <= j

\* PATCH /traces/{id}
Patched(traces, id, group) ==
  [i \in 1 .. Len(traces) |->
     IF traces[i].id = id THEN Trace(id, group) ELSE traces[i]]

\* no syncSession call is modelled
SyncOff ==
  /\ log = <<>>
  /\ mtime = 0
  /\ stored = NoSession
  /\ remote = <<>>
  /\ nextId = 0
  /\ sPc = [s \in Syncers |-> "off"]
  /\ sForce = [s \in Syncers |-> FALSE]
  /\ sDry = [s \in Syncers |-> FALSE]
  /\ sLen = [s \in Syncers |-> 0]
  /\ sGroups = [s \in Syncers |-> <<>>]
  /\ sExisting = [s \in Syncers |-> <<>>]
  /\ sActions = [s \in Syncers |-> <<>>]
  /\ sUpdated = [s \in Syncers |-> <<>>]
  /\ sNext = [s \in Syncers |-> 1]
  /\ sResult = [s \in Syncers |-> "none"]
  /\ runs = 0
  /\ touches = 0
  /\ created = [a \in 1 .. MaxLog |-> 0]
  /\ forcedEver = FALSE
  /\ persistedLen = 0
  /\ sCalls = [s \in Syncers |-> 0]
  /\ sClean = [s \in Syncers |-> FALSE]
  /\ fileExists = FALSE
  /\ sAcked = [s \in Syncers |-> 0]
  /\ sTags = [s \in Syncers |-> 0]
  /\ sTagFailed = [s \in Syncers |-> FALSE]
  /\ sLocks = [s \in Syncers |-> 0]
  /\ sPersist = [s \in Syncers |-> "none"]
  /\ sStateErr = [s \in Syncers |-> "none"]
  /\ sSent = [s \in Syncers |-> <<>>]

\* the one group of an earlier content of the session file, since replaced:
\* none of its messages is in the file any more
EarlierGroup == <<Msg(0, UserText)>>

EarlierTraceId == 100

\* the state saved by a call that synced the earlier content
EarlierSession ==
  [present |-> TRUE,
   fingerprint |-> Fingerprint(EarlierGroup, 0, 0),
   syncedGroups |-> <<SyncedEntry(EarlierTraceId, EarlierGroup)>>]

\* a session that has no file yet, or an empty one; either never synced, with
\* an empty server project, or synced with an earlier content of its file
InitSync ==
  /\ log = <<>>
  /\ mtime = 0
  /\ \/ /\ stored = NoSession
        /\ remote = <<>>
        /\ persistedLen = 0
     \/ /\ stored = EarlierSession
        /\ remote = <<Trace(EarlierTraceId, EarlierGroup)>>
        /\ persistedLen = MaxLog + 1
  /\ nextId = 0
  /\ sPc = [s \in Syncers |-> "idle"]
  /\ sForce = [s \in Syncers |-> FALSE]
  /\ sDry = [s \in Syncers |-> FALSE]
  /\ sLen = [s \in Syncers |-> 0]
  /\ sGroups = [s \in Syncers |-> <<>>]
  /\ sExisting = [s \in Syncers |-> <<>>]
  /\ sActions = [s \in Syncers |-> <<>>]
  /\ sUpdated = [s \in Syncers |-> <<>>]
  /\ sNext = [s \in Syncers |-> 1]
  /\ sResult = [s \in Syncers |-> "none"]
  /\ runs = 0
  /\ touches = 0
  /\ created = [a \in 1 .. MaxLog |-> 0]
  /\ forcedEver = FALSE
  /\ sCalls = [s \in Syncers |-> 0]
  /\ sClean = [s \in Syncers |-> FALSE]
  /\ fileExists \in BOOLEAN
  /\ sAcked = [s \in Syncers |-> 0]
  /\ sTags = [s \in Syncers |-> 0]
  /\ sTagFailed = [s \in Syncers |-> FALSE]
  /\ sLocks = [s \in Syncers |-> 0]
  /\ sPersist = [s \in Syncers |-> "none"]
  /\ sStateErr = [s \in Syncers |-> "none"]
  /\ sSent = [s \in Syncers |-> <<>>]

fileVars == <<log, mtime, touches, fileExists>>

\* what the claims keep about the current call
callVars == <<sCalls, sSent, sAcked, sTags, sTagFailed, sLocks, sPersist, sStateErr>>

serverVars == <<remote, nextId, created>>

optionVars == <<sForce, sDry, sLen, sGroups, sClean, runs, forcedEver>>

\* Claude Code appends a line to the session file, creating it if need be
AppendMsg(kind) ==
  /\ Len(log) < MaxLog
  /\ log' = Append(log, Msg(Len(log) + 1, kind))
  /\ mtime' = mtime + 1
  /\ fileExists' = TRUE
  /\ UNCHANGED <<touches, stored, persistedLen, sPc, sExisting, sActions,
                 sUpdated, sNext, sResult>>
  /\ UNCHANGED <<serverVars, optionVars, callVars>>
  /\ UNCHANGED nonSyncVars

\* the file is rewritten with the same lines
Touch ==
  /\ touches < MaxTouch
  /\ Len(log) > 0
  /\ touches' = touches + 1
  /\ mtime' = mtime + 1
  /\ UNCHANGED <<log, fileExists, stored, persistedLen, sPc, sExisting,
                 sActions, sUpdated, sNext, sResult>>
  /\ UNCHANGED <<serverVars, optionVars, callVars>>
  /\ UNCHANGED nonSyncVars

\* a plausible slip: a forced call looks the synced groups up as well
StartSyncForceReadsState(s, force, dryRun) ==
  /\ sPc[s] = "idle"
  /\ runs < MaxRuns
  /\ runs' = runs + 1
  /\ sForce' = [sForce EXCEPT ![s] = force]
  /\ sDry' = [sDry EXCEPT ![s] = dryRun]
  /\ forcedEver' = (forcedEver \/ force)
  /\ IF fileExists
     THEN /\ sLen' = [sLen EXCEPT ![s] = Len(log)]
          /\ sGroups' = [sGroups EXCEPT
                           ![s] = groupMessagesByUserInteraction(log)]
          /\ sClean' = [sClean EXCEPT
                          ![s] = stored.present /\ persistedLen = Len(log)]
          /\ sPc' = [sPc EXCEPT
                       ![s] = IF force THEN "getSyncState" ELSE "needsSync"]
          /\ UNCHANGED sResult
     ELSE /\ sPc' = [sPc EXCEPT ![s] = "failed"]
          /\ sResult' = [sResult EXCEPT ![s] = "SessionNotFound"]
          /\ UNCHANGED <<sLen, sGroups, sClean>>
  /\ UNCHANGED <<stored, persistedLen, sExisting, sActions, sUpdated, sNext>>
  /\ UNCHANGED <<fileVars, serverVars, callVars>>
  /\ UNCHANGED nonSyncVars

\* a plausible slip: the state is looked up before the session file
StartSyncChecksStateFirst(s, force, dryRun) ==
  /\ sPc[s] = "idle"
  /\ runs < MaxRuns
  /\ runs' = runs + 1
  /\ sForce' = [sForce EXCEPT ![s] = force]
  /\ sDry' = [sDry EXCEPT ![s] = dryRun]
  /\ forcedEver' = (forcedEver \/ force)
  /\ sLen' = [sLen EXCEPT ![s] = Len(log)]
  /\ sGroups' = [sGroups EXCEPT ![s] = groupMessagesByUserInteraction(log)]
  /\ sClean' = [sClean EXCEPT ![s] = stored.present /\ persistedLen = Len(log)]
  /\ sPc' = [sPc EXCEPT ![s] = IF force THEN "analyze" ELSE "needsSync"]
  /\ UNCHANGED <<stored, persistedLen, sExisting, sActions, sUpdated, sNext,
                 sResult>>
  /\ UNCHANGED <<fileVars, serverVars, callVars>>
  /\ UNCHANGED nonSyncVars

\* syncSession entry: find the file, or raise; parse it and group the
\* messages; a forced call goes straight to the diff
StartSync(s, force, dryRun) ==
  /\ sPc[s] = "idle"
  /\ runs < MaxRuns
  /\ runs' = runs + 1
  /\ sForce' = [sForce EXCEPT ![s] = force]
  /\ sDry' = [sDry EXCEPT ![s] = dryRun]
  /\ forcedEver' = (forcedEver \/ force)
  /\ IF fileExists
     THEN /\ sLen' = [sLen EXCEPT ![s] = Len(log)]
          /\ sGroups' = [sGroups EXCEPT
                           ![s] = groupMessagesByUserInteraction(log)]
          /\ sClean' = [sClean EXCEPT
                          ![s] = stored.present /\ persistedLen = Len(log)]
          /\ sPc' = [sPc EXCEPT
                       ![s] = IF force THEN "analyze" ELSE "needsSync"]
          /\ UNCHANGED sResult
     ELSE /\ sPc' = [sPc EXCEPT ![s] = "failed"]
          /\ sResult' = [sResult EXCEPT ![s] = "SessionNotFound"]
          /\ UNCHANGED <<sLen, sGroups, sClean>>
  /\ UNCHANGED <<stored, persistedLen, sExisting, sActions, sUpdated, sNext>>
  /\ UNCHANGED <<fileVars, serverVars, callVars>>
  /\ UNCHANGED nonSyncVars

\* a plausible slip: the check of an unchanged session saves the state again
NeedsSyncSavesState(s, ok) ==
  /\ sPc[s] = "needsSync"
  /\ sLocks' = [sLocks EXCEPT ![s] = @ + 1]
  /\ IF ~ok
     THEN /\ sPc' = [sPc EXCEPT ![s] = "analyze"]
          /\ sStateErr' = [sStateErr EXCEPT ![s] = "LockTimeout"]
          /\ UNCHANGED <<sResult, sPersist>>
     ELSE IF \/ ~stored.present
             \/ Len(log) = 0
             \/ stored.fingerprint # Fingerprint(log, mtime, 0)
          THEN /\ sPc' = [sPc EXCEPT ![s] = "getSyncState"]
               /\ UNCHANGED <<sResult, sStateErr, sPersist>>
          ELSE /\ sPc' = [sPc EXCEPT ![s] = "done"]
               /\ sResult' = [sResult EXCEPT ![s] = "empty"]
               /\ sPersist' = [sPersist EXCEPT ![s] = "saved"]
               /\ UNCHANGED sStateErr
  /\ UNCHANGED <<stored, persistedLen, sExisting, sActions, sUpdated, sNext,
                 sCalls, sSent, sAcked, sTags, sTagFailed>>
  /\ UNCHANGED <<fileVars, serverVars, optionVars>>
  /\ UNCHANGED nonSyncVars

\* a plausible slip (or a fix that was meant): the lock taken for the check
\* is kept for the rest of the call
NeedsSyncKeepsLock(s, ok) ==
  /\ sPc[s] = "needsSync"
  /\ ok => ~lockFile.exists
  /\ sLocks' = [sLocks EXCEPT ![s] = @ + 1]
  /\ IF ~ok
     THEN /\ sPc' = [sPc EXCEPT ![s] = "analyze"]
          /\ sStateErr' = [sStateErr EXCEPT ![s] = "LockTimeout"]
          /\ UNCHANGED <<sResult, sExisting, lockFile>>
     ELSE IF \/ ~stored.present
             \/ Len(log) = 0
             \/ stored.fingerprint # Fingerprint(log, mtime, 0)
          THEN /\ sPc' = [sPc EXCEPT ![s] = "analyze"]
               /\ sExisting' = [sExisting EXCEPT
                                  ![s] = IF stored.present
                                         THEN stored.syncedGroups ELSE <<>>]
               /\ lockFile' = [exists |-> TRUE, owner |-> s, age |-> 0]
               /\ UNCHANGED <<sResult, sStateErr>>
          ELSE /\ sPc' = [sPc EXCEPT ![s] = "done"]
               /\ sResult' = [sResult EXCEPT ![s] = "empty"]
               /\ UNCHANGED <<sStateErr, sExisting, lockFile>>
  /\ UNCHANGED <<stored, persistedLen, sActions, sUpdated, sNext,
                 sCalls, sSent, sAcked, sTags, sTagFailed, sPersist>>
  /\ UNCHANGED <<fileVars, serverVars, optionVars>>
  /\ UNCHANGED <<stateFile, tempFile, pc, attempts, loaded, fdIno, opErr,
                 raised, opRuns, staleAtCall, openFailures, answer>>
  /\ UNCHANGED <<groupVars, diffVars, extraVars>>

\* await syncStateManager.needsSync: it throws (the lock is not acquired
\* within the retries) and the catch goes on with no synced groups, or it
\* compares the stored fingerprint with the file's current one
NeedsSync(s, ok) ==
  /\ sPc[s] = "needsSync"
  /\ ok => ~lockFile.exists
  /\ sLocks' = [sLocks EXCEPT ![s] = @ + 1]
  /\ IF ~ok
     THEN /\ sPc' = [sPc EXCEPT ![s] = "analyze"]
          /\ sStateErr' = [sStateErr EXCEPT ![s] = "LockTimeout"]
          /\ UNCHANGED sResult
     ELSE IF \/ ~stored.present
             \/ Len(log) = 0
             \/ stored.fingerprint # Fingerprint(log, mtime, 0)
          THEN /\ sPc' = [sPc EXCEPT ![s] = "getSyncState"]
               /\ UNCHANGED <<sResult, sStateErr>>
          ELSE /\ sPc' = [sPc EXCEPT ![s] = "done"]
               /\ sResult' = [sResult EXCEPT ![s] = "empty"]
               /\ UNCHANGED sStateErr
  /\ UNCHANGED <<stored, persistedLen, sExisting, sActions, sUpdated, sNext,
                 sCalls, sSent, sAcked, sTags, sTagFailed, sPersist>>
  /\ UNCHANGED <<fileVars, serverVars, optionVars>>
  /\ UNCHANGED nonSyncVars

\* await syncStateManager.getSyncState, with the same catch
GetSyncState(s, ok) ==
  /\ sPc[s] = "getSyncState"
  /\ ok => ~lockFile.exists
  /\ sLocks' = [sLocks EXCEPT ![s] = @ + 1]
  /\ sPc' = [sPc EXCEPT ![s] = "analyze"]
  /\ sExisting' = [sExisting EXCEPT
                     ![s] = IF ok /\ stored.present
                            THEN stored.syncedGroups ELSE <<>>]
  /\ sStateErr' = [sStateErr EXCEPT ![s] = IF ok THEN @ ELSE "LockTimeout"]
  /\ UNCHANGED <<stored, persistedLen, sActions, sUpdated, sNext, sResult,
                 sCalls, sSent, sAcked, sTags, sTagFailed, sPersist>>
  /\ UNCHANGED <<fileVars, serverVars, optionVars>>
  /\ UNCHANGED nonSyncVars

\* where the call goes after the create batch, given its actions
AfterCreate(actions) ==
  IF Len(UpdateActions(actions)) > 0 THEN "update" ELSE "persist"

\* a plausible slip: the dry-run return is missing
AnalyzeIgnoresDryRun(s) ==
  /\ sPc[s] = "analyze"
  /\ LET groupActions == analyzeGroupChanges(sGroups[s], sExisting[s]) IN
       /\ sActions' = [sActions EXCEPT ![s] = groupActions]
       /\ IF Len(groupActions) = 0
          THEN /\ sPc' = [sPc EXCEPT ![s] = "done"]
               /\ sResult' = [sResult EXCEPT ![s] = "empty"]
               /\ UNCHANGED <<sUpdated, sNext>>
          ELSE /\ sPc' = [sPc EXCEPT ![s] = "create"]
               /\ sUpdated' = [sUpdated EXCEPT ![s] = sExisting[s]]
               /\ sNext' = [sNext EXCEPT ![s] = 1]
               /\ UNCHANGED sResult
  /\ UNCHANGED <<stored, persistedLen, sExisting>>
  /\ UNCHANGED <<fileVars, serverVars, optionVars, callVars>>
  /\ UNCHANGED nonSyncVars

\* analyzeGroupChanges, the two early returns, the set-up of the publishing
Analyze(s) ==
  /\ sPc[s] = "analyze"
  /\ LET groupActions == analyzeGroupChanges(sGroups[s], sExisting[s]) IN
       /\ sActions' = [sActions EXCEPT ![s] = groupActions]
       /\ IF Len(groupActions) = 0 \/ sDry[s]
          THEN /\ sPc' = [sPc EXCEPT ![s] = "done"]
               /\ sResult' = [sResult EXCEPT ![s] = "empty"]
               /\ UNCHANGED <<sUpdated, sNext>>
          ELSE /\ sPc' = [sPc EXCEPT ![s] = "create"]
               /\ sUpdated' = [sUpdated EXCEPT ![s] = sExisting[s]]
               /\ sNext' = [sNext EXCEPT ![s] = 1]
               /\ UNCHANGED sResult
  /\ UNCHANGED <<stored, persistedLen, sExisting>>
  /\ UNCHANGED <<fileVars, serverVars, optionVars, callVars>>
  /\ UNCHANGED nonSyncVars

\* the traces of a create batch, with the ids convertGroupToTrace minted
NewTraces(createGroups, firstId) ==
  [i \in 1 .. Len(createGroups) |-> Trace(firstId + i, createGroups[i].group)]

\* what opikClient.createTraces and opikClient.updateTrace are called with
CreateRequest(createGroups, firstId) ==
  [call |-> "createTraces", traces |-> NewTraces(createGroups, firstId)]

UpdateRequest(traceId, group) ==
  [call |-> "updateTrace", traces |-> <<Trace(traceId, group)>>]

\* a plausible slip: the id is minted once, before the loop over the groups
NewEntriesSharedId(createGroups, firstId) ==
  [i \in 1 .. Len(createGroups) |->
     SyncedEntry(firstId + 1, createGroups[i].group)]

NewEntries(createGroups, firstId) ==
  [i \in 1 .. Len(createGroups) |->
     SyncedEntry(firstId + i, createGroups[i].group)]

\* a plausible slip: the entry is pushed inside the try of the tag call
RECURSIVE RecordedIfTagged(_, _, _)
RecordedIfTagged(createGroups, firstId, tagFails) ==
  IF Len(createGroups) = 0 THEN <<>>
  ELSE LET n == Len(createGroups)
           before == RecordedIfTagged(SubSeq(createGroups, 1, n - 1), firstId,
                                      tagFails)
       IN IF n \in tagFails THEN before
          ELSE Append(before, SyncedEntry(firstId + n, createGroups[n].group))

\* the entries pushed to updatedSyncedGroups after createTraces, the tag
\* calls of the groups in tagFails having failed: the push follows the
\* try/catch of the tag call
Recorded(createGroups, firstId, tagFails) == NewEntries(createGroups, firstId)

\* a plausible slip: the error of createTraces is logged and the call goes on
CreateBatchSwallows(s, ok, landed, tagFails) ==
  /\ sPc[s] = "create"
  /\ LET createGroups == CreateGroups(sActions[s])
     IN /\ Len(createGroups) > 0
        /\ tagFails = {}
        /\ ok => landed
        /\ sCalls' = [sCalls EXCEPT ![s] = @ + 1]
        /\ sSent' = [sSent EXCEPT
                       ![s] = Append(@, CreateRequest(createGroups, nextId))]
        /\ sAcked' = [sAcked EXCEPT ![s] = IF ok THEN @ + 1 ELSE @]
        /\ sTags' = [sTags EXCEPT ![s] = @ + Len(createGroups)]
        /\ sUpdated' = [sUpdated EXCEPT
                          ![s] = @ \o Recorded(createGroups, nextId, tagFails)]
        /\ sPc' = [sPc EXCEPT ![s] = AfterCreate(sActions[s])]
  /\ UNCHANGED <<stored, persistedLen, sExisting, sActions, sNext, sResult,
                 sTagFailed, sLocks, sPersist, sStateErr>>
  /\ UNCHANGED <<fileVars, serverVars, optionVars>>
  /\ UNCHANGED nonSyncVars

\* the create batch: nothing to send, or one createTraces call that succeeds,
\* or throws with the traces stored by the server (landed) or not; after a
\* success one updateThreadTags call per group, those of tagFails failing
CreateBatch(s, ok, landed, tagFails) ==
  /\ sPc[s] = "create"
  /\ LET createGroups == CreateGroups(sActions[s])
         anchors == {createGroups[i].group[1].uuid :
                       i \in 1 .. Len(createGroups)}
     IN IF Len(createGroups) = 0
        THEN /\ ok /\ landed /\ tagFails = {}
             /\ sPc' = [sPc EXCEPT ![s] = AfterCreate(sActions[s])]
             /\ UNCHANGED <<serverVars, sUpdated, sResult, sCalls, sSent, sAcked,
                            sTags, sTagFailed>>
        ELSE /\ ok => landed
             /\ tagFails \subseteq (IF ok THEN 1 .. Len(createGroups) ELSE {})
             /\ created' = [a \in 1 .. MaxLog |->
                              IF ok /\ a \in anchors THEN created[a] + 1
                              ELSE created[a]]
             /\ sCalls' = [sCalls EXCEPT ![s] = @ + 1]
             /\ sSent' = [sSent EXCEPT
                            ![s] = Append(@, CreateRequest(createGroups,
                                                           nextId))]
             /\ IF landed
                THEN /\ remote' = remote \o NewTraces(createGroups, nextId)
                     /\ nextId' = nextId + Len(createGroups)
                ELSE UNCHANGED <<remote, nextId>>
             /\ IF ok
                THEN /\ sAcked' = [sAcked EXCEPT ![s] = @ + 1]
                     /\ sTags' = [sTags EXCEPT ![s] = @ + Len(createGroups)]
                     /\ sTagFailed' = [sTagFailed EXCEPT
                                         ![s] = @ \/ tagFails # {}]
                     /\ sUpdated' = [sUpdated EXCEPT
                          ![s] = @ \o Recorded(createGroups, nextId, tagFails)]
                     /\ sPc' = [sPc EXCEPT ![s] = AfterCreate(sActions[s])]
                     /\ UNCHANGED sResult
                ELSE /\ sPc' = [sPc EXCEPT ![s] = "failed"]
                     /\ sResult' = [sResult EXCEPT ![s] = "publishError"]
                     /\ UNCHANGED <<sUpdated, sAcked, sTags, sTagFailed>>
  /\ UNCHANGED <<stored, persistedLen, sExisting, sActions, sNext, sLocks,
                 sPersist, sStateErr>>
  /\ UNCHANGED <<fileVars, optionVars>>
  /\ UNCHANGED nonSyncVars

\* one round of the update loop: updateTrace on the stored trace id, the tag
\* call (tagOk: it succeeds), then the entry with that trace id is replaced
UpdateOne(s, ok, tagOk) ==
  /\ sPc[s] = "update"
  /\ LET updateActions == UpdateActions(sActions[s])
         action == updateActions[sNext[s]]
         existingIndex == FindIndex(sUpdated[s], action.traceId)
         last == sNext[s] = Len(updateActions)
     IN IF ~Convertible(action.group)
        THEN /\ ok /\ tagOk
             /\ sNext' = [sNext EXCEPT ![s] = @ + 1]
             /\ sPc' = [sPc EXCEPT ![s] = IF last THEN "persist" ELSE "update"]
             /\ UNCHANGED <<remote, sUpdated, sResult, sCalls, sSent, sAcked, sTags,
                            sTagFailed>>
        ELSE /\ sCalls' = [sCalls EXCEPT ![s] = @ + 1]
             /\ sSent' = [sSent EXCEPT
                            ![s] = Append(@, UpdateRequest(action.traceId,
                                                           action.group))]
             /\ ~ok => tagOk
             /\ IF ok
                THEN /\ remote' = Patched(remote, action.traceId, action.group)
                     /\ sAcked' = [sAcked EXCEPT ![s] = @ + 1]
                     /\ sTags' = [sTags EXCEPT ![s] = @ + 1]
                     /\ sTagFailed' = [sTagFailed EXCEPT ![s] = @ \/ ~tagOk]
                     /\ sUpdated' = [sUpdated EXCEPT
                          ![s] = IF existingIndex = 0 THEN @
                                 ELSE [@ EXCEPT ![existingIndex] =
                                         SyncedEntry(action.traceId,
                                                     action.group)]]
                     /\ sNext' = [sNext EXCEPT ![s] = @ + 1]
                     /\ sPc' = [sPc EXCEPT
                                  ![s] = IF last THEN "persist" ELSE "update"]
                     /\ UNCHANGED sResult
                ELSE /\ sPc' = [sPc EXCEPT ![s] = "failed"]
                     /\ sResult' = [sResult EXCEPT ![s] = "publishError"]
                     /\ UNCHANGED <<remote, sUpdated, sNext, sAcked, sTags,
                                    sTagFailed>>
  /\ UNCHANGED <<stored, persistedLen, sExisting, sActions, nextId, created,
                 sLocks, sPersist, sStateErr>>
  /\ UNCHANGED <<fileVars, optionVars>>
  /\ UNCHANGED nonSyncVars

PersistOutcomes == {"saved", "stateError", "tmpFileError"}

\* a plausible slip: the error of updateSyncedGroups is raised to the caller
PersistRethrows(s, outcome) ==
  /\ sPc[s] = "persist"
  /\ IF outcome = "saved"
     THEN /\ stored' = [present |-> TRUE,
                        fingerprint |-> Fingerprint(log, mtime, 0),
                        syncedGroups |-> sUpdated[s]]
          /\ persistedLen' = sLen[s]
     ELSE UNCHANGED <<stored, persistedLen>>
  /\ IF outcome = "saved"
     THEN /\ sPc' = [sPc EXCEPT ![s] = "done"]
          /\ sResult' = [sResult EXCEPT ![s] = "tmpFile"]
     ELSE /\ sPc' = [sPc EXCEPT ![s] = "failed"]
          /\ sResult' = [sResult EXCEPT ![s] = outcome]
  /\ sLocks' = [sLocks EXCEPT ![s] = IF outcome = "tmpFileError" THEN @
                                     ELSE @ + 1]
  /\ sPersist' = [sPersist EXCEPT
                    ![s] = IF outcome = "saved" THEN "saved"
                           ELSE IF outcome = "stateError" THEN "failed" ELSE @]
  /\ UNCHANGED <<sExisting, sActions, sUpdated, sNext, sCalls, sSent, sAcked, sTags,
                 sTagFailed, sStateErr>>
  /\ UNCHANGED <<fileVars, serverVars, optionVars>>
  /\ UNCHANGED nonSyncVars

\* a plausible slip: the saved list is added to the one in the state file
PersistAppends(s, outcome) ==
  /\ sPc[s] = "persist"
  /\ outcome = "saved" => ~lockFile.exists
  /\ IF outcome = "saved"
     THEN /\ stored' = [present |-> TRUE,
                        fingerprint |-> Fingerprint(log, mtime, 0),
                        syncedGroups |-> stored.syncedGroups \o sUpdated[s]]
          /\ persistedLen' = sLen[s]
     ELSE UNCHANGED <<stored, persistedLen>>
  /\ IF outcome = "tmpFileError"
     THEN /\ sPc' = [sPc EXCEPT ![s] = "failed"]
          /\ sResult' = [sResult EXCEPT ![s] = "tmpFileError"]
     ELSE /\ sPc' = [sPc EXCEPT ![s] = "done"]
          /\ sResult' = [sResult EXCEPT ![s] = "tmpFile"]
  /\ sLocks' = [sLocks EXCEPT ![s] = IF outcome = "tmpFileError" THEN @
                                     ELSE @ + 1]
  /\ sPersist' = [sPersist EXCEPT
                    ![s] = IF outcome = "saved" THEN "saved"
                           ELSE IF outcome = "stateError" THEN "failed" ELSE @]
  /\ UNCHANGED <<sExisting, sActions, sUpdated, sNext, sCalls, sSent, sAcked, sTags,
                 sTagFailed, sStateErr>>
  /\ UNCHANGED <<fileVars, serverVars, optionVars>>
  /\ UNCHANGED nonSyncVars

\* writeFileSync(tmpFile) and updateSyncedGroups: the trace dump cannot be
\* written and the call throws; or the state update throws and the call only
\* warns; or the state is saved with the file's fingerprint as it is now
Persist(s, outcome) ==
  /\ sPc[s] = "persist"
  /\ outcome = "saved" => ~lockFile.exists
  /\ IF outcome = "saved"
     THEN /\ stored' = [present |-> TRUE,
                        fingerprint |-> Fingerprint(log, mtime, 0),
                        syncedGroups |-> sUpdated[s]]
          /\ persistedLen' = sLen[s]
     ELSE UNCHANGED <<stored, persistedLen>>
  /\ IF outcome = "tmpFileError"
     THEN /\ sPc' = [sPc EXCEPT ![s] = "failed"]
          /\ sResult' = [sResult EXCEPT ![s] = "tmpFileError"]
     ELSE /\ sPc' = [sPc EXCEPT ![s] = "done"]
          /\ sResult' = [sResult EXCEPT ![s] = "tmpFile"]
  /\ sLocks' = [sLocks EXCEPT ![s] = IF outcome = "tmpFileError" THEN @
                                     ELSE @ + 1]
  /\ sPersist' = [sPersist EXCEPT
                    ![s] = IF outcome = "saved" THEN "saved"
                           ELSE IF outcome = "stateError" THEN "failed" ELSE @]
  /\ UNCHANGED <<sExisting, sActions, sUpdated, sNext, sCalls, sSent, sAcked, sTags,
                 sTagFailed, sStateErr>>
  /\ UNCHANGED <<fileVars, serverVars, optionVars>>
  /\ UNCHANGED nonSyncVars

\* the call has returned or thrown; its locals are gone
Return(s) ==
  /\ sPc[s] \in {"done", "failed"}
  /\ sPc' = [sPc EXCEPT ![s] = "idle"]
  /\ sForce' = [sForce EXCEPT ![s] = FALSE]
  /\ sDry' = [sDry EXCEPT ![s] = FALSE]
  /\ sLen' = [sLen EXCEPT ![s] = 0]
  /\ sGroups' = [sGroups EXCEPT ![s] = <<>>]
  /\ sExisting' = [sExisting EXCEPT ![s] = <<>>]
  /\ sActions' = [sActions EXCEPT ![s] = <<>>]
  /\ sUpdated' = [sUpdated EXCEPT ![s] = <<>>]
  /\ sNext' = [sNext EXCEPT ![s] = 1]
  /\ sResult' = [sResult EXCEPT ![s] = "none"]
  /\ sCalls' = [sCalls EXCEPT ![s] = 0]
  /\ sAcked' = [sAcked EXCEPT ![s] = 0]
  /\ sTags' = [sTags EXCEPT ![s] = 0]
  /\ sTagFailed' = [sTagFailed EXCEPT ![s] = FALSE]
  /\ sLocks' = [sLocks EXCEPT ![s] = 0]
  /\ sPersist' = [sPersist EXCEPT ![s] = "none"]
  /\ sStateErr' = [sStateErr EXCEPT ![s] = "none"]
  /\ sSent' = [sSent EXCEPT ![s] = <<>>]
  /\ sClean' = [sClean EXCEPT ![s] = FALSE]
  /\ UNCHANGED <<stored, persistedLen, runs, forcedEver>>
  /\ UNCHANGED <<fileVars, serverVars>>
  /\ UNCHANGED nonSyncVars

\* one process: its syncSession calls, and the session file growing
NextSync ==
  \/ \E kind \in SyncKinds : AppendMsg(kind)
  \/ Touch
  \/ \E s \in SoloSyncers :
       \/ \E force, dryRun \in BOOLEAN : StartSync(s, force, dryRun)
       \/ \E ok \in BOOLEAN : NeedsSync(s, ok)
       \/ \E ok \in BOOLEAN : GetSyncState(s, ok)
       \/ Analyze(s)
       \/ \E ok, landed \in BOOLEAN : \E tagFails \in SUBSET (1 .. MaxLog) :
            CreateBatch(s, ok, landed, tagFails)
       \/ \E ok, tagOk \in BOOLEAN : UpdateOne(s, ok, tagOk)
       \/ \E outcome \in PersistOutcomes : Persist(s, outcome)
       \/ Return(s)

\* two processes calling syncSession on the same session, their steps
\* interleaved; each call of the state manager is one step, the lock being
\* taken and released inside it.  The file only grows, no call is a dry run,
\* and the tag calls succeed.
NextRace ==
  \/ \E kind \in SyncKinds : AppendMsg(kind)
  \/ \E s \in Syncers :
       \/ \E force \in BOOLEAN : StartSync(s, force, FALSE)
       \/ \E ok \in BOOLEAN : NeedsSync(s, ok)
       \/ \E ok \in BOOLEAN : GetSyncState(s, ok)
       \/ Analyze(s)
       \/ \E ok \in BOOLEAN : CreateBatch(s, ok, ok, {})
       \/ \E ok \in BOOLEAN : UpdateOne(s, ok, TRUE)
       \/ \E outcome \in PersistOutcomes : Persist(s, outcome)
       \/ Return(s)

(***************************************************************************)
(* Claims about syncSession                                                *)
(***************************************************************************)
\* C2: as long as no call was forced, syncSession calls made one after the
\* other by one process have each anchor message created by at most one
\* createTraces call, whatever the outcome of each call.
C2_DuplicatePrevention ==
  ~forcedEver => \A a \in 1 .. MaxLog : created[a] <= 1

\* C3: a call that is not forced and that starts when the state was saved by
\* a completed call for exactly the messages the file holds makes no
\* createTraces and no updateTrace call.
C3_Idempotence ==
  \A s \in Syncers : (sClean[s] /\ ~sForce[s]) => sCalls[s] = 0

\* the call of s has ended without publishing: the fingerprint was the stored
\* one, or the diff held no action
Skipped(s) == sPc[s] = "done" /\ sResult[s] = "empty" /\ sActions[s] = <<>>

\* the steps a skipped call consists of
Checking(s) == sPc[s] \in {"idle", "needsSync", "getSyncState", "analyze"}

\* C14: a call that ends as skipped (unchanged fingerprint without force, or
\* a diff with no action) returns the empty result, has made no createTraces,
\* updateTrace or updateThreadTags call and has not saved the state; none of
\* the steps that lead there changes the stored state or the server's traces.
C14_SkippedNoEffect ==
  /\ [](\A s \in SoloSyncers :
          Skipped(s) => /\ sCalls[s] = 0
                        /\ sTags[s] = 0
                        /\ sPersist[s] = "none")
  /\ [][\A s \in SoloSyncers :
          Checking(s) => /\ stored' = stored
                         /\ persistedLen' = persistedLen
                         /\ remote' = remote]_vars

\* a changed fingerprint (the file was rewritten) with every group recorded
\* and unchanged: both state lookups ran and the diff was empty
C14_Witness ==
  \E s \in SoloSyncers :
    /\ Skipped(s)
    /\ ~sForce[s] /\ ~sDry[s]
    /\ sLocks[s] = 2
    /\ Len(sGroups[s]) > 0
    /\ Len(sExisting[s]) = Len(sGroups[s])

\* the synced groups the state store holds for the session
StoredGroups == IF stored.present THEN stored.syncedGroups ELSE <<>>

\* the call of s is past analyzeGroupChanges and about to publish
Diffed(s) == sPc[s] \in {"create", "update", "persist"}

PublishFailed(s) == sCalls[s] > sAcked[s]

\* C16: when createTraces or an updateTrace call fails, the call of
\* syncSession makes no further publish call, raises the error to its caller
\* and does not save the state: the stored state is what it was before.
C16_PublishFailureAborts ==
  /\ [](\A s \in SoloSyncers :
          PublishFailed(s) => /\ sPc[s] = "failed"
                              /\ sResult[s] = "publishError"
                              /\ sCalls[s] = sAcked[s] + 1
                              /\ sPersist[s] = "none")
  /\ [][\A s \in SoloSyncers :
          /\ sPc[s] \in {"create", "update"} =>
               (stored' = stored /\ persistedLen' = persistedLen)
          /\ PublishFailed(s) =>
               /\ stored' = stored
               /\ remote' = remote
               /\ sCalls'[s] <= sCalls[s]
               /\ sTags'[s] <= sTags[s]
               /\ sPc'[s] \in {"failed", "idle"}]_vars

\* createTraces succeeded, then the updateTrace of an older group failed
C16_Witness ==
  \E s \in SoloSyncers :
    /\ PublishFailed(s)
    /\ sAcked[s] = 1
    /\ sPc[s] = "failed"
    /\ sNext[s] = 1
    /\ Len(UpdateActions(sActions[s])) > 0
    /\ stored.present

\* C17: when needsSync or getSyncState of a non-forced call fails because the
\* lock was not acquired within the retries, syncSession fails with that
\* error and makes no createTraces or updateTrace call.
C17_LockTimeoutSurfaces ==
  \A s \in SoloSyncers :
    (~sForce[s] /\ sStateErr[s] = "LockTimeout") =>
      /\ sCalls[s] = 0
      /\ sPc[s] \notin {"analyze", "create", "update", "persist", "done"}
      /\ sPc[s] = "failed" => sResult[s] = "LockTimeout"

\* C18: when the session has no file, syncSession fails with the
\* session-not-found error before any withLock call, makes no publish call
\* and changes neither the stored state nor the lock file.
C18_SessionNotFound ==
  /\ [](\A s \in SoloSyncers :
          sResult[s] = "SessionNotFound" => /\ sPc[s] = "failed"
                                            /\ sLocks[s] = 0
                                            /\ sCalls[s] = 0
                                            /\ sTags[s] = 0
                                            /\ sPersist[s] = "none")
  /\ [][\A s \in SoloSyncers :
          (sPc[s] = "idle" /\ sPc'[s] # "idle" /\ ~fileExists) =>
             /\ sPc'[s] = "failed"
             /\ sResult'[s] = "SessionNotFound"
             /\ stored' = stored
             /\ remote' = remote
             /\ lockFile' = lockFile
             /\ stateFile' = stateFile]_vars

\* a call for a session that has no file has failed
C18_Witness ==
  \E s \in SoloSyncers :
    /\ sPc[s] = "failed"
    /\ sResult[s] = "SessionNotFound"
    /\ ~fileExists
    /\ sLocks[s] = 0

\* C19: when every publish call of a call succeeded and updateSyncedGroups
\* fails, syncSession still returns the path of the dumped traces, raises
\* nothing, and makes no further call to the server.
C19_PersistFailureNonFatal ==
  /\ [](\A s \in SoloSyncers :
          sPersist[s] = "failed" => /\ sPc[s] = "done"
                                    /\ sResult[s] = "tmpFile"
                                    /\ sCalls[s] = sAcked[s])
  /\ [][\A s \in SoloSyncers :
          (sPc[s] = "persist" \/ sPersist[s] = "failed") =>
             /\ remote' = remote
             /\ sCalls'[s] <= sCalls[s]
             /\ sTags'[s] <= sTags[s]]_vars

\* traces were created, the state update failed, the call has returned the
\* path and the state store still has no record of the session
C19_Witness ==
  \E s \in SoloSyncers :
    /\ sPersist[s] = "failed"
    /\ sPc[s] = "done"
    /\ sResult[s] = "tmpFile"
    /\ sAcked[s] > 0
    /\ Len(remote) > 0
    /\ ~stored.present

\* the entry of updatedSyncedGroups for the group of a create action
HasCreated(syncedGroups, group) ==
  \E j \in 1 .. Len(syncedGroups) :
    /\ syncedGroups[j].userMessageUuid = group[1].uuid
    /\ syncedGroups[j].lastMessageUuid = group[Len(group)].uuid
    /\ syncedGroups[j].messageCount = Len(group)

\* the update actions of s that the update loop has been through
UpdatesDone(s) ==
  IF sPc[s] = "update" THEN sNext[s] - 1 ELSE Len(UpdateActions(sActions[s]))

\* C20: when an updateThreadTags call fails for a created or an updated
\* group, the call of syncSession goes on with the remaining groups, the
\* failure does not reach the caller, and the group's entry is still added to
\* (or replaced in) the list that updateSyncedGroups saves.
C20_TagFailureNonFatal ==
  /\ [](\A s \in SoloSyncers :
          sTagFailed[s] =>
            /\ sPc[s] = "failed" =>
                 sResult[s] \in {"publishError", "tmpFileError"}
            /\ sPc[s] \in {"update", "persist", "done"} =>
                 /\ \A i \in 1 .. Len(CreateGroups(sActions[s])) :
                      HasCreated(sUpdated[s],
                                 CreateGroups(sActions[s])[i].group)
                 /\ \A k \in 1 .. UpdatesDone(s) :
                      LET action == UpdateActions(sActions[s])[k]
                      IN Convertible(action.group) =>
                           \E j \in 1 .. Len(sUpdated[s]) :
                             sUpdated[s][j] =
                               SyncedEntry(action.traceId, action.group))
  /\ [][\A s \in SoloSyncers :
          /\ (sTagFailed'[s] /\ ~sTagFailed[s]) =>
               sPc'[s] \in {"update", "persist"}
          /\ (sTagFailed[s] /\ sPersist'[s] = "saved") =>
               stored'.syncedGroups = sUpdated[s]]_vars

\* a tag call failed after createTraces, and the state saved by the call
\* holds an entry for every group of the session
C20_Witness ==
  \E s \in SoloSyncers :
    /\ sTagFailed[s]
    /\ sPersist[s] = "saved"
    /\ Len(CreateGroups(sActions[s])) > 0
    /\ stored.syncedGroups = sUpdated[s]
    /\ \A i \in 1 .. Len(sGroups[s]) :
         HasCreated(stored.syncedGroups, sGroups[s][i])

\* C21: a call with dryRun set, forced or not, on a session that has a file,
\* makes no createTraces, updateTrace or updateThreadTags call, does not save
\* the state and returns the empty result.
C21_DryRunNoEffect ==
  /\ [](\A s \in SoloSyncers :
          sDry[s] => /\ sCalls[s] = 0
                     /\ sTags[s] = 0
                     /\ sPersist[s] = "none"
                     /\ sPc[s] \notin {"create", "update", "persist"}
                     /\ sPc[s] = "done" => sResult[s] = "empty"
                     /\ sPc[s] = "failed" => sResult[s] = "SessionNotFound")
  /\ [][\A s \in SoloSyncers :
          sDry[s] => /\ stored' = stored
                     /\ persistedLen' = persistedLen
                     /\ remote' = remote]_vars

\* a forced dry run of a session whose groups are recorded has returned the
\* empty result although its diff held actions
C21_Witness ==
  \E s \in SoloSyncers :
    /\ sDry[s] /\ sForce[s]
    /\ sPc[s] = "done" /\ sResult[s] = "empty"
    /\ Len(sActions[s]) > 0
    /\ stored.present /\ Len(stored.syncedGroups) > 0

\* the anchors a list of synced groups records
Anchors(syncedGroups) ==
  {syncedGroups[j].userMessageUuid : j \in 1 .. Len(syncedGroups)}

\* the call of s saves the state in this step
Saves(s) == sPc[s] = "persist" /\ sPersist'[s] = "saved"

\* C22: whenever a call of syncSession, forced or not, saves the state, every
\* anchor that was recorded for the session before is still recorded.
C22_NoDeletion ==
  [][\A s \in SoloSyncers :
       Saves(s) => Anchors(StoredGroups) \subseteq Anchors(StoredGroups')]_vars

\* the session files made of one user text message followed by assistant,
\* tool-call and tool-result lines
SingleExchangeLogs ==
  {l \in Logs({UserText, ToolResult, AssistantText, AssistantBlocks}, MaxLog) :
     /\ Len(l) >= 1
     /\ StartsGroup(l[1])
     /\ \A i \in 2 .. Len(l) : ~StartsGroup(l[i])}

\* grouping and diff on every such file: one group; a create when nothing is
\* recorded, nothing when the group is recorded as it is, an update with the
\* recorded trace id once an assistant message has been appended
SingleExchangeDiffs ==
  \A l \in SingleExchangeLogs :
    LET grown == Append(l, Msg(Len(l) + 1, AssistantText))
        synced == <<SyncedEntry(EarlierTraceId, l)>>
    IN /\ groupMessagesByUserInteraction(l) = <<l>>
       /\ groupMessagesByUserInteraction(grown) = <<grown>>
       /\ analyzeGroupChanges(<<l>>, <<>>) = <<CreateAction(l)>>
       /\ analyzeGroupChanges(<<l>>, synced) = <<>>
       /\ analyzeGroupChanges(<<grown>>, synced) =
            <<UpdateAction(grown, EarlierTraceId)>>

\* the call of s parsed a file of one exchange
SingleExchange(s) ==
  /\ Len(sGroups[s]) = 1
  /\ Len(sGroups[s][1]) = sLen[s]
  /\ StartsGroup(sGroups[s][1][1])

\* the call of s has its diff
PastDiff(s) == sPc[s] \in {"create", "update", "persist", "done", "failed"}

\* C23: on a session of one exchange, the first call emits one create action
\* and no update; a call made when the state was saved for exactly the
\* messages in the file emits no action; a call made after one more message
\* was appended emits one update action, with the recorded trace id, and no
\* create.
C23_SingleExchange ==
  /\ SingleExchangeDiffs
  /\ \A s \in SoloSyncers :
       (~sForce[s] /\ SingleExchange(s) /\ PastDiff(s)
          /\ sResult[s] # "SessionNotFound") =>
         /\ (~stored.present /\ sPc[s] = "create") =>
              sActions[s] = <<CreateAction(sGroups[s][1])>>
         /\ sClean[s] => sActions[s] = <<>>
         /\ (stored.present /\ sPersist[s] = "none"
               /\ persistedLen = sLen[s] - 1) =>
              LET k == FindSynced(stored.syncedGroups, sGroups[s][1][1].uuid)
              IN /\ k > 0
                 /\ sActions[s] =
                      <<UpdateAction(sGroups[s][1],
                                     stored.syncedGroups[k].traceId)>>

\* no two entries of the list record the same anchor
UniqueAnchors(syncedGroups) ==
  \A i, j \in 1 .. Len(syncedGroups) :
    syncedGroups[i].userMessageUuid = syncedGroups[j].userMessageUuid => i = j

\* the call of s created a trace for the anchor and saved the state
PublishedAndSaved(s, anchor) ==
  /\ ~sForce[s]
  /\ sPersist[s] = "saved"
  /\ \E i \in 1 .. Len(CreateGroups(sActions[s])) :
       CreateGroups(sActions[s])[i].group[1].uuid = anchor

\* C24: in every reachable state, two processes syncing the session at the
\* same time included, the saved list of synced groups has at most one entry
\* per anchor (and so has each call's own list).
C24_AnchorUnique ==
  /\ UniqueAnchors(StoredGroups)
  /\ \A s \in Syncers : UniqueAnchors(sUpdated[s])

\* both processes created a trace for the same group and saved the state; the
\* server has two traces of that group and the saved list one entry
C24_Witness ==
  \E anchor \in 1 .. MaxLog :
    /\ PublishedAndSaved(1, anchor)
    /\ PublishedAndSaved(2, anchor)
    /\ created[anchor] = 2
    /\ anchor \in Anchors(StoredGroups)

\* the call of s made both state lookups, not forced, and has its createTraces
\* call for the anchor acknowledged
RacedCreate(s, anchor) ==
  /\ ~sForce[s]
  /\ sStateErr[s] = "none"
  /\ sLocks[s] >= 2
  /\ sAcked[s] >= 1
  /\ \E i \in 1 .. Len(CreateGroups(sActions[s])) :
       CreateGroups(sActions[s])[i].group[1].uuid = anchor

\* C25: needsSync, getSyncState and updateSyncedGroups each take the lock and
\* release it before they return, so no process holds the lock between its
\* calls or while it publishes; the lock therefore does not keep two
\* processes from diffing the same stored state and both creating a trace
\* for the same anchor (the state C25_Witness describes).
C25_LockPerCall ==
  /\ ~lockFile.exists
  /\ \A s \in Syncers :
       sPc[s] \in {"getSyncState", "analyze", "create", "update", "persist"}
         => lockFile.owner # s

\* two processes, neither forced and neither with a failed state lookup, read
\* the same synced groups and have both created a trace for the same anchor
C25_Witness ==
  \E anchor \in 1 .. MaxLog :
    /\ RacedCreate(1, anchor)
    /\ RacedCreate(2, anchor)
    /\ sExisting[1] = sExisting[2]
    /\ created[anchor] = 2
    /\ ~forcedEver

\* the groups one after the other
RECURSIVE Concat(_)
Concat(groups) ==
  IF Len(groups) = 0 THEN <<>>
  ELSE Concat(SubSeq(groups, 1, Len(groups) - 1)) \o groups[Len(groups)]

WithoutSummaries(messages) ==
  SelectSeq(messages, LAMBDA m : m.type # "summary")

\* C26: every group returned is non-empty, and the groups one after the other
\* are the messages of the file without the summary lines: same messages,
\* same order, none twice, those before the first user text message included.
C26_LosslessPartition ==
  gPc = "done" =>
    /\ \A k \in 1 .. Len(gOut) : Len(gOut[k]) > 0
    /\ Concat(gOut) = WithoutSummaries(gIn)

\* a file with a summary line, messages before the first user text message,
\* and two exchanges
C26_Witness ==
  /\ gPc = "done"
  /\ Len(gOut) >= 2
  /\ ~StartsGroup(gOut[1][1])
  /\ \E i \in 1 .. Len(gIn) : gIn[i].type = "summary"
  /\ \E k \in 2 .. Len(gOut) : Len(gOut[k]) >= 2

\* the anchors of the traces of a request
RequestAnchors(request) ==
  [i \in 1 .. Len(request.traces) |-> request.traces[i].anchor]

\* the anchors of the groups of a list of actions
ActionAnchors(actions) == [i \in 1 .. Len(actions) |-> actions[i].group[1].uuid]

\* where in the requests of s the createTraces calls are
CreateCallsAt(s) ==
  {k \in 1 .. Len(sSent[s]) : sSent[s][k].call = "createTraces"}

UpdateCalls(s) == SelectSeq(sSent[s], LAMBDA r : r.call = "updateTrace")

\* the create actions whose group starts with a user text message
AnchoredCreates(actions) ==
  SelectSeq(actions, LAMBDA a : a.action = "create" /\ StartsGroup(a.group[1]))

\* what C27 says of the order of the calls, whatever the batch holds: one
\* createTraces call at most, and it is the first call; every call but the
\* last succeeded, so an updateTrace call follows a successful createTraces;
\* the updateTrace calls are those of the update actions, in their order,
\* one trace each, with anchors in file order
CallOrder(s) ==
  /\ CreateCallsAt(s) \subseteq {1}
  /\ sAcked[s] >= Len(sSent[s]) - 1
  /\ LET updates == UpdateCalls(s)
         updateActions == SelectSeq(sActions[s], LAMBDA a : a.action = "update")
     IN /\ Len(updates) <= Len(updateActions)
        /\ \A j \in 1 .. Len(updates) :
             /\ updates[j] = UpdateRequest(updateActions[j].traceId,
                                           updateActions[j].group)
             /\ \A i \in 1 .. j - 1 :
                  updates[i].traces[1].anchor < updates[j].traces[1].anchor
        /\ (Len(updates) > 0 /\ Len(AnchoredCreates(sActions[s])) > 0) =>
             CreateCallsAt(s) = {1}

\* C27: at most one createTraces call is made and it carries all create
\* actions of the run; every updateTrace call is issued after that call has
\* succeeded; updateTrace calls are issued one at a time, in the order of
\* their groups in the file.
C27_OneBatchAllCreates ==
  \A s \in SoloSyncers :
    /\ CallOrder(s)
    /\ \A k \in CreateCallsAt(s) :
         RequestAnchors(sSent[s][k]) =
           ActionAnchors(SelectSeq(sActions[s], IsCreate))

\* the createTraces call of s succeeded
CreatedBatch(s) == 1 \in CreateCallsAt(s) /\ sAcked[s] >= 1

\* C28: for every group created in a run, the trace id of its new entry is the
\* id its trace carried in the createTraces request, the entry is appended
\* after the entries read from the state and saved with that id, and two
\* groups created in the same run never get the same id.
C28_MintedIdsRecorded ==
  \A s \in SoloSyncers :
    CreatedBatch(s) =>
      LET request == sSent[s][1].traces
          base == Len(sExisting[s])
      IN /\ Len(sUpdated[s]) = base + Len(request)
         /\ \A i \in 1 .. Len(request) :
              /\ sUpdated[s][base + i].traceId = request[i].id
              /\ sUpdated[s][base + i].userMessageUuid = request[i].anchor
              /\ \A j \in 1 .. Len(request) :
                   i # j => request[i].id # request[j].id
              /\ sPersist[s] = "saved" =>
                   \E k \in 1 .. Len(StoredGroups) :
                     /\ StoredGroups[k].traceId = request[i].id
                     /\ StoredGroups[k].userMessageUuid = request[i].anchor

\* a call that created two groups in one batch and saved their entries
C28_Witness ==
  \E s \in SoloSyncers :
    /\ CreatedBatch(s)
    /\ Len(sSent[s][1].traces) = 2
    /\ sPersist[s] = "saved"

\* the trace id the list records for an anchor it holds
TraceIdOf(syncedGroups, anchor) ==
  syncedGroups[FindSynced(syncedGroups, anchor)].traceId

\* s issues an updateTrace call in this step
Updates(s) == sPc[s] = "update" /\ Len(sSent'[s]) = Len(sSent[s]) + 1

\* C29: every updateTrace call targets the trace id stored for the group's
\* anchor; when the run saves, the entry of that anchor keeps its trace id and
\* anchor while its message count is that of the current group; and across
\* non-forced syncs the trace id recorded for an anchor never changes.
C29_UpdateKeepsId ==
  [][\A s \in SoloSyncers :
       /\ Updates(s) =>
            LET request == sSent'[s][Len(sSent'[s])].traces[1]
            IN /\ request.anchor \in Anchors(StoredGroups)
               /\ request.id = TraceIdOf(StoredGroups, request.anchor)
       /\ (Saves(s) /\ ~sForce[s]) =>
            /\ \A k \in 1 .. Len(sSent[s]) :
                 (sSent[s][k].call = "updateTrace") =>
                   LET request == sSent[s][k].traces[1]
                       j == FindSynced(StoredGroups', request.anchor)
                   IN /\ j > 0
                      /\ StoredGroups'[j].traceId = request.id
                      /\ StoredGroups'[j].messageCount = request.count
            /\ \A anchor \in Anchors(StoredGroups) \cap Anchors(StoredGroups') :
                 TraceIdOf(StoredGroups', anchor) =
                   TraceIdOf(StoredGroups, anchor)]_vars

\* what C30 compares of an entry: trace id, anchor and message count
Brief(traceId, anchor, count) ==
  [traceId |-> traceId, anchor |-> anchor, count |-> count]

Briefs(syncedGroups) ==
  [i \in 1 .. Len(syncedGroups) |->
     Brief(syncedGroups[i].traceId, syncedGroups[i].userMessageUuid,
           syncedGroups[i].messageCount)]

\* the successful updateTrace requests of s, and its successful createTraces
AckedUpdates(s) ==
  {sSent[s][k].traces[1] : k \in {i \in 1 .. sAcked[s] :
                                    sSent[s][i].call = "updateTrace"}}

AckedCreates(s) == IF CreatedBatch(s) THEN sSent[s][1].traces ELSE <<>>

\* the stored list merged with what s published: entries no request targeted
\* as they were, updated entries in place, one entry appended per create
MergedWith(prior, s) ==
  [i \in 1 .. Len(prior) |->
     IF \E u \in AckedUpdates(s) : u.id = prior[i].traceId
     THEN LET u == CHOOSE u \in AckedUpdates(s) : u.id = prior[i].traceId
          IN Brief(u.id, u.anchor, u.count)
     ELSE Brief(prior[i].traceId, prior[i].userMessageUuid,
                prior[i].messageCount)]
  \o [i \in 1 .. Len(AckedCreates(s)) |->
        Brief(AckedCreates(s)[i].id, AckedCreates(s)[i].anchor,
              AckedCreates(s)[i].count)]

\* C30: when a call of syncSession, the only writer, saves the state, the list
\* stored for the session is the previously stored list with the entries no
\* action targeted unchanged and in order, each updated entry replaced in
\* place and one entry appended per published create, and the stored
\* fingerprint is the fingerprint of the file at the time of the write.
C30_PersistedMerge ==
  [][\A s \in SoloSyncers :
       Saves(s) =>
         /\ Briefs(StoredGroups') = MergedWith(StoredGroups, s)
         /\ stored'.fingerprint = Fingerprint(log, mtime, 0)]_vars

\* where in currentGroups the group of an action is
GroupIndex(group) == CHOOSE k \in 1 .. Len(dG) : dG[k] = group

\* the groups of the actions are current groups, in increasing position
InGroupOrder(actions) ==
  \A n \in 1 .. Len(actions) :
    /\ \E k \in 1 .. Len(dG) : dG[k] = actions[n].group
    /\ \A m \in 1 .. n - 1 :
         GroupIndex(actions[m].group) < GroupIndex(actions[n].group)

\* C31: analyzeGroupChanges emits at most one action per current group, the
\* actions are in the order of their groups in the current-group list, and
\* the create actions and the update actions filtered from them each keep
\* that order.
C31_DiffOrder ==
  dPc = "done" =>
    /\ \A k \in 1 .. Len(dG) : Cardinality(ActionsFor(dG[k])) <= 1
    /\ InGroupOrder(dOut)
    /\ InGroupOrder(SelectSeq(dOut, IsCreate))
    /\ InGroupOrder(UpdateActions(dOut))
    /\ Len(SelectSeq(dOut, IsCreate)) + Len(UpdateActions(dOut)) = Len(dOut)

\* three groups: the first is updated, the second unchanged, the third new
C31_Witness ==
  /\ dPc = "done"
  /\ Len(dG) = 3
  /\ Len(dOut) = 2
  /\ dOut[1].action = "update" /\ dOut[1].group = dG[1]
  /\ dOut[2].action = "create" /\ dOut[2].group = dG[3]

\* the call of s has been through its create batch without an error
PastCreate(s) ==
  \/ sPc[s] \in {"update", "persist"}
  \/ sPc[s] = "done" /\ sResult[s] = "tmpFile"

\* the file s parsed has messages before its first user text message
LeadingGroup(s) == Len(sGroups[s]) > 0 /\ ~StartsGroup(sGroups[s][1][1])

\* C33: when the file has messages before its first user text message, the
\* leading group they form yields a create action on the first sync, and its
\* trace is in the createTraces call sent to the server.
C33_LeadingGroupPublished ==
  \A s \in SoloSyncers :
    (PastCreate(s) /\ LeadingGroup(s) /\ sExisting[s] = <<>>) =>
      /\ \E n \in 1 .. Len(sActions[s]) :
           sActions[s][n] = CreateAction(sGroups[s][1])
      /\ 1 \in CreateCallsAt(s)
      /\ \E i \in 1 .. Len(sSent[s][1].traces) :
           sSent[s][1].traces[i].anchor = sGroups[s][1][1].uuid

\* C36: for a session file that starts with a user text message, whenever the
\* fingerprint stored for the session is the fingerprint of the file as it is
\* now, diffing the file's groups against the stored syncedGroups yields no
\* action (so no appended message stays unpublished behind a skipped sync).
C36_FingerprintConsistent ==
  (/\ Len(log) > 0
   /\ StartsGroup(log[1])
   /\ stored.present
   /\ stored.fingerprint = Fingerprint(log, mtime, 0)) =>
    analyzeGroupChanges(groupMessagesByUserInteraction(log),
                        stored.syncedGroups) = <<>>

(***************************************************************************)
(* withLock with the clock: the backoff schedule                           *)
(***************************************************************************)
\* how late a backoff timer may fire, in ms
MaxLate == 100

\* the ages, in ms, of the lock file another process left behind
BackoffAges ==
  {0, 5000, 14000, 15000, 16000, 17000, 17001, 20000, 29999, 30000, 30001}

\* a plausible slip: the cap is missing
BackoffDelayUncapped(n) == 100 * 2 ^ n

\* Math.min(100 * Math.pow(2, attempts), 2000)
BackoffDelay(n) == IF 100 * 2 ^ n < 2000 THEN 100 * 2 ^ n ELSE 2000

\* no withLock call with the clock is modelled
BackoffOff ==
  /\ bLock = NoLock
  /\ bPc = "off"
  /\ bAttempts = 0
  /\ bDelay = 0
  /\ bRaised = "none"
  /\ bWaited = 0
  /\ bAgeAtCall = 0
  /\ bReclaimed = FALSE

\* withLock is called: no lock file, or one whose holder has terminated
InitBackoff ==
  /\ bLock \in {NoLock} \cup {[AbandonedLock EXCEPT !.age = a] :
                                a \in BackoffAges}
  /\ bPc = "clean"
  /\ bAttempts = 0
  /\ bDelay = 0
  /\ bRaised = "none"
  /\ bWaited = 0
  /\ bAgeAtCall = IF bLock.exists THEN bLock.age ELSE -1
  /\ bReclaimed = FALSE

\* cleanStaleLocks: a lock file older than lockTimeout is removed
BackoffClean ==
  /\ bPc = "clean"
  /\ bPc' = "open"
  /\ IF bLock.exists /\ IsStale(bLock.age)
     THEN /\ bLock' = NoLock
          /\ bReclaimed' = TRUE
     ELSE UNCHANGED <<bLock, bReclaimed>>
  /\ UNCHANGED <<bAttempts, bDelay, bRaised, bWaited, bAgeAtCall>>
  /\ UNCHANGED nonBackoffVars

\* openSync(O_EXCL) and, on EEXIST, the catch block up to setTimeout; when
\* the file is created the operation runs and the lock is released
BackoffOpen ==
  /\ bPc = "open"
  /\ IF bLock.exists
     THEN /\ bAttempts' = bAttempts + 1
          /\ bDelay' = BackoffDelay(bAttempts + 1)
          /\ bPc' = "sleep"
     ELSE /\ bPc' = "done"
          /\ UNCHANGED <<bAttempts, bDelay>>
  /\ UNCHANGED <<bLock, bRaised, bWaited, bAgeAtCall, bReclaimed>>
  /\ UNCHANGED nonBackoffVars

\* the timer fires after delay ms, or up to MaxLate ms later; the while
\* condition is tested again
BackoffWake(late) ==
  /\ bPc = "sleep"
  /\ bWaited' = bWaited + bDelay
  /\ bLock' = IF bLock.exists
              THEN [bLock EXCEPT !.age = @ + bDelay + late]
              ELSE bLock
  /\ IF bAttempts < maxRetries
     THEN /\ bPc' = "clean"
          /\ UNCHANGED bRaised
     ELSE /\ bPc' = "failed"
          /\ bRaised' = "LockTimeout"
  /\ UNCHANGED <<bAttempts, bDelay, bAgeAtCall, bReclaimed>>
  /\ UNCHANGED nonBackoffVars

NextBackoff ==
  \/ BackoffClean
  \/ BackoffOpen
  \/ \E late \in {0, MaxLate} : BackoffWake(late)

(***************************************************************************)
(* Claims about the backoff schedule                                       *)
(***************************************************************************)
\* the smaller of two numbers
Least(a, b) == IF a < b THEN a ELSE b

\* C32: the wait after the k-th failed attempt (k = 1..10) is
\* min(100 * 2^(k-1), 2000) ms, never below 100 ms and never above 2000 ms.
C32_BackoffFromBase ==
  bPc = "sleep" =>
    /\ bDelay = Least(100 * 2 ^ (bAttempts - 1), 2000)
    /\ bDelay >= 100
    /\ bDelay <= 2000

\* the schedule the code follows: the wait after the k-th failed attempt is
\* min(100 * 2^k, 2000) ms, that is 200, 400, 800, 1600 and then 2000 ms
BackoffSchedule ==
  bPc = "sleep" =>
    /\ bAttempts \in 1 .. maxRetries
    /\ bDelay = Least(100 * 2 ^ bAttempts, 2000)
    /\ bDelay = <<200, 400, 800, 1600, 2000, 2000, 2000, 2000, 2000,
                  2000>>[bAttempts]
    /\ bDelay >= 200
    /\ bDelay <= 2000

\* C38: the backoff waits of a withLock call that ends in a lock timeout add
\* up to less than the 30 s staleness threshold, so a call that starts right
\* after a lock file was left behind (age 0) never removes that lock and can
\* only end with a lock timeout.
C38_BudgetBelowStaleness ==
  /\ bPc = "failed" => (bRaised = "LockTimeout" /\ bWaited < lockTimeout)
  /\ bAgeAtCall = 0 =>
       /\ ~bReclaimed
       /\ bLock.exists
       /\ bLock.age <= lockTimeout
       /\ bPc # "done"

\* the call found a lock file just left behind, slept after each of its ten
\* failed attempts, 15 s in all, and raised the lock timeout
C38_Witness ==
  /\ bPc = "failed"
  /\ bRaised = "LockTimeout"
  /\ bAgeAtCall = 0
  /\ bAttempts = maxRetries
  /\ bWaited = 15000
  /\ ~bReclaimed


(***************************************************************************)
(* SessionWatcher                                                          *)
(***************************************************************************)
\* options.debounceMs as the constructor sets it, the length of a clock tick
\* in ms, the number of handleFileChange calls
debounceMs == 2000
TickMs == 1000
MaxEvents == 4

DebounceTicks == debounceMs \div TickMs

\* the session ids extractSessionId returns
WatchSessions == {1, 2}

\* no watcher is modelled
WatchOff ==
  /\ wIsRunning = FALSE
  /\ wHas = [s \in WatchSessions |-> FALSE]
  /\ wTimers = [s \in WatchSessions |-> <<>>]
  /\ wSyncing = [s \in WatchSessions |-> 0]
  /\ wEvents = 0
  /\ wAge = [s \in WatchSessions |-> -1]
  /\ wBurst = [s \in WatchSessions |-> 0]
  /\ wSince = [s \in WatchSessions |-> 0]

\* the watcher after start()
InitWatch ==
  /\ wIsRunning = TRUE
  /\ wHas = [s \in WatchSessions |-> FALSE]
  /\ wTimers = [s \in WatchSessions |-> <<>>]
  /\ wSyncing = [s \in WatchSessions |-> 0]
  /\ wEvents = 0
  /\ wAge = [s \in WatchSessions |-> -1]
  /\ wBurst = [s \in WatchSessions |-> 0]
  /\ wSince = [s \in WatchSessions |-> 0]

\* a sequence without its element at position i
Without(seq, i) == SubSeq(seq, 1, i - 1) \o SubSeq(seq, i + 1, Len(seq))

\* a plausible slip: the pending timer is not cleared
RearmedKeepsTimer(timers, has) == Append(timers, DebounceTicks)

\* the timers of a session after handleFileChange: the timer the map holds
\* (the newest one) is cleared, a new one is set
Rearmed(timers, has) ==
  Append(IF has /\ Len(timers) > 0 THEN Without(timers, Len(timers))
         ELSE timers,
         DebounceTicks)

\* handleFileChange for a file of session s, called on chokidar's add and
\* change events and by checkForRecentChanges; a timer of s that is due has
\* fired before (the event loop runs due timers first)
HandleFileChange(s) ==
  /\ wIsRunning
  /\ wEvents < MaxEvents
  /\ \A i \in 1 .. Len(wTimers[s]) : wTimers[s][i] > 0
  /\ wEvents' = wEvents + 1
  /\ wTimers' = [wTimers EXCEPT ![s] = Rearmed(@, wHas[s])]
  /\ wHas' = [wHas EXCEPT ![s] = TRUE]
  /\ wBurst' = [wBurst EXCEPT
                  ![s] = IF wAge[s] >= 0 /\ wAge[s] < DebounceTicks
                         THEN @ + 1 ELSE 1]
  /\ wAge' = [wAge EXCEPT ![s] = 0]
  /\ wSince' = [wSince EXCEPT ![s] = 0]
  /\ UNCHANGED <<wIsRunning, wSyncing>>
  /\ UNCHANGED nonWatchVars

\* a debounce timer of s fires: the map entry is deleted and
\* syncSessionSafely calls syncSession
TimerFires(s, i) ==
  /\ wIsRunning
  /\ i \in 1 .. Len(wTimers[s])
  /\ wTimers[s][i] = 0
  /\ wTimers' = [wTimers EXCEPT ![s] = Without(@, i)]
  /\ wHas' = [wHas EXCEPT ![s] = FALSE]
  /\ wSyncing' = [wSyncing EXCEPT ![s] = @ + 1]
  /\ wSince' = [wSince EXCEPT ![s] = @ + 1]
  /\ UNCHANGED <<wIsRunning, wEvents, wAge, wBurst>>
  /\ UNCHANGED nonWatchVars

\* a syncSession call of s returns or throws; syncSessionSafely counts it
SyncSettles(s) ==
  /\ wIsRunning
  /\ wSyncing[s] > 0
  /\ wSyncing' = [wSyncing EXCEPT ![s] = @ - 1]
  /\ UNCHANGED <<wIsRunning, wHas, wTimers, wEvents, wAge, wBurst, wSince>>
  /\ UNCHANGED nonWatchVars

\* a tick of the clock; a timer that is due fires first
WatchTick ==
  /\ wIsRunning
  /\ \A s \in WatchSessions : \A i \in 1 .. Len(wTimers[s]) :
       wTimers[s][i] > 0
  /\ \E s \in WatchSessions :
       wAge[s] >= 0 /\ wAge[s] <= DebounceTicks
  /\ wTimers' = [s \in WatchSessions |->
                   [i \in 1 .. Len(wTimers[s]) |-> wTimers[s][i] - 1]]
  /\ wAge' = [s \in WatchSessions |->
                IF wAge[s] >= 0 /\ wAge[s] <= DebounceTicks
                THEN wAge[s] + 1 ELSE wAge[s]]
  /\ UNCHANGED <<wIsRunning, wHas, wSyncing, wEvents, wBurst, wSince>>
  /\ UNCHANGED nonWatchVars

\* stop(): the pending timers are cleared, the watcher is closed
WatchStop ==
  /\ wIsRunning
  /\ wIsRunning' = FALSE
  /\ wTimers' = [s \in WatchSessions |-> <<>>]
  /\ wHas' = [s \in WatchSessions |-> FALSE]
  /\ UNCHANGED <<wSyncing, wEvents, wAge, wBurst, wSince>>
  /\ UNCHANGED nonWatchVars

NextWatch ==
  \/ WatchTick
  \/ WatchStop
  \/ \E s \in WatchSessions :
       \/ HandleFileChange(s)
       \/ \E i \in 1 .. MaxEvents : TimerFires(s, i)
       \/ SyncSettles(s)

(***************************************************************************)
(* Claims about SessionWatcher                                             *)
(***************************************************************************)
\* a debounce timer of s fires in this step
Fires(s) == wSince'[s] = wSince[s] + 1

\* C34: in a running watcher at most one debounce timer is pending per
\* session id; the change events of a burst, each less than debounceMs after
\* the one before, lead to exactly one syncSession call, which starts
\* debounceMs after the last of them.
C34_Debounce ==
  /\ [](\A s \in WatchSessions :
          /\ Len(wTimers[s]) <= 1
          /\ Len(wTimers[s]) = 1 =>
               /\ wHas[s]
               /\ wSince[s] = 0
               /\ wTimers[s][1] = DebounceTicks - wAge[s]
          /\ (wIsRunning /\ wAge[s] >= 0 /\ Len(wTimers[s]) = 0) =>
               /\ wSince[s] = 1
               /\ wAge[s] >= DebounceTicks)
  /\ [][\A s \in WatchSessions :
          Fires(s) => (wAge[s] = DebounceTicks /\ wSince[s] = 0)]_vars

\* a burst of three change events of one session has led to one syncSession
\* call, and time has moved on
C34_Witness ==
  \E s \in WatchSessions :
    /\ wIsRunning
    /\ wBurst[s] = 3
    /\ wSince[s] = 1
    /\ wAge[s] > DebounceTicks
    /\ wTimers[s] = <<>>

\* C39: in one watcher two syncSession runs of the same session id are never
\* in progress at the same time.
C39_NoOverlappingSyncs ==
  \A s \in WatchSessions : wSyncing[s] <= 1


(***************************************************************************)
(* syncProject                                                             *)
(***************************************************************************)
\* the most sessions listSessions returns
MaxSessions == 3

\* the session lists: up to MaxSessions distinct session ids, in any order
SessionLists ==
  UNION {{list \in [1 .. n -> 1 .. MaxSessions] :
            \A i, j \in 1 .. n : i # j => list[i] # list[j]} :
         n \in 0 .. MaxSessions}

\* how a syncSession call ends: it returns the tmp file path, it returns ''
\* (skipped, dry run), or it throws
SyncOutcomes == {"tmpFile", "empty", "throws"}

\* no syncProject call is modelled
ProjectOff ==
  /\ pSessions = <<>>
  /\ pNext = 0
  /\ pSynced = 0
  /\ pSkipped = 0
  /\ pPc = "off"
  /\ pRaised = "none"
  /\ pCalled = <<>>
  /\ pOutcomes = <<>>

\* syncProject after listSessions
InitProject ==
  /\ pSessions \in SessionLists
  /\ pNext = 1
  /\ pSynced = 0
  /\ pSkipped = 0
  /\ pPc = "loop"
  /\ pRaised = "none"
  /\ pCalled = <<>>
  /\ pOutcomes = <<>>

\* a plausible slip: the try/catch around syncSession is missing
ProjectCallRethrows(outcome) ==
  /\ pPc = "loop"
  /\ pNext <= Len(pSessions)
  /\ pCalled' = Append(pCalled, pSessions[pNext])
  /\ pOutcomes' = Append(pOutcomes, outcome)
  /\ pSynced' = IF outcome = "tmpFile" THEN pSynced + 1 ELSE pSynced
  /\ pSkipped' = IF outcome = "empty" THEN pSkipped + 1 ELSE pSkipped
  /\ pNext' = pNext + 1
  /\ pPc' = IF outcome = "throws" THEN "failed" ELSE pPc
  /\ pRaised' = IF outcome = "throws" THEN "syncError" ELSE pRaised
  /\ UNCHANGED pSessions
  /\ UNCHANGED nonProjectVars

\* one round of the for loop: syncSession is awaited inside try/catch; a
\* truthy result counts as synced, '' as skipped, an error is logged
ProjectCall(outcome) ==
  /\ pPc = "loop"
  /\ pNext <= Len(pSessions)
  /\ pCalled' = Append(pCalled, pSessions[pNext])
  /\ pOutcomes' = Append(pOutcomes, outcome)
  /\ pSynced' = IF outcome = "tmpFile" THEN pSynced + 1 ELSE pSynced
  /\ pSkipped' = IF outcome = "empty" THEN pSkipped + 1 ELSE pSkipped
  /\ pNext' = pNext + 1
  /\ UNCHANGED <<pSessions, pPc, pRaised>>
  /\ UNCHANGED nonProjectVars

\* the early return of an empty list, or the summary after the loop
ProjectReturn ==
  /\ pPc = "loop"
  /\ pNext > Len(pSessions)
  /\ pPc' = "done"
  /\ UNCHANGED <<pSessions, pNext, pSynced, pSkipped, pRaised, pCalled,
                 pOutcomes>>
  /\ UNCHANGED nonProjectVars

NextProject ==
  \/ \E outcome \in SyncOutcomes : ProjectCall(outcome)
  \/ ProjectReturn

(***************************************************************************)
(* Claims about syncProject                                                *)
(***************************************************************************)
\* the calls that threw: the errors syncProject logged
Failed == Len(SelectSeq(pOutcomes, LAMBDA o : o = "throws"))

\* C35: syncProject calls syncSession once for every listed session, in list
\* order; an error of one session neither stops the calls for the remaining
\* sessions nor is raised to the caller; synced, skipped and failed sessions
\* add up to the number of sessions.
C35_FailureIsolation ==
  /\ pPc \in {"off", "loop", "done"}
  /\ pRaised = "none"
  /\ pCalled = SubSeq(pSessions, 1, Len(pCalled))
  /\ pSynced + pSkipped + Failed = Len(pCalled)
  /\ pPc = "done" =>
       /\ pCalled = pSessions
       /\ pSynced + pSkipped + Failed = Len(pSessions)

\* three sessions: the first failed, the second was synced, the third skipped
C35_Witness ==
  /\ pPc = "done"
  /\ Len(pSessions) = 3
  /\ pOutcomes = <<"throws", "tmpFile", "empty">>
  /\ pSynced = 1
  /\ pSkipped = 1

\* the parts added to the first four are off
CoreOff == LockOff /\ GroupOff /\ DiffOff /\ SyncOff

ExtraOff == BackoffOff /\ WatchOff /\ ProjectOff

(***************************************************************************)
(* Specifications                                                          *)
(***************************************************************************)
Init == InitLock /\ GroupOff /\ DiffOff /\ SyncOff /\ ExtraOff

Next == NextLock

\* processes calling withLock on one state directory
Spec == Init /\ [][Next]_vars

\* one process calling withLock, alone on the state directory
OnlySolo == InitSolo /\ GroupOff /\ DiffOff /\ SyncOff /\ ExtraOff

SpecSolo == OnlySolo /\ [][NextSolo]_vars /\ SoloFairness

\* groupMessagesByUserInteraction on every session file of up to MaxLen lines
OnlyGroup == InitGroup /\ LockOff /\ DiffOff /\ SyncOff /\ ExtraOff

SpecGroup == OnlyGroup /\ [][NextGroup]_vars

\* analyzeGroupChanges on the groups of every session file of up to
\* MaxDiffMsgs lines and every stored list of up to MaxSynced entries
OnlyDiff == InitDiff /\ LockOff /\ GroupOff /\ SyncOff /\ ExtraOff

SpecDiff == OnlyDiff /\ [][NextDiff]_vars

\* one process calling syncSession up to MaxRuns times on a session file that
\* grows to MaxLog lines
OnlySync == InitSync /\ LockOff /\ GroupOff /\ DiffOff /\ ExtraOff

SpecSync == OnlySync /\ [][NextSync]_vars

\* two processes calling syncSession on the same session, MaxRuns calls in all
OnlyRace == InitSync /\ LockOff /\ GroupOff /\ DiffOff /\ ExtraOff

SpecRace == OnlyRace /\ [][NextRace]_vars

\* one withLock call with the clock, the lock file absent or abandoned
OnlyBackoff == InitBackoff /\ CoreOff /\ WatchOff /\ ProjectOff

SpecBackoff == OnlyBackoff /\ [][NextBackoff]_vars

\* one SessionWatcher, two sessions, MaxEvents change events
OnlyWatch == InitWatch /\ CoreOff /\ BackoffOff /\ ProjectOff

SpecWatch == OnlyWatch /\ [][NextWatch]_vars

\* one syncProject call on every list of up to MaxSessions sessions
OnlyProject == InitProject /\ CoreOff /\ BackoffOff /\ WatchOff

SpecProject == OnlyProject /\ [][NextProject]_vars

====
